---- MODULE Spec2Model ----
(***************************************************************************)
(* State-machine model of the real-time communication backend:            *)
(*   CallService     (src/src/services/callService.ts)                    *)
(*   MessageService  (src/src/services/onePipeService.ts, lines 254-653)  *)
(*   SocketHandler   (src/unnamed/part_009, lines 85-492)                 *)
(*   AuthService     (src/src/services/authService.ts)                    *)
(* Every `await db(...)` of a service method is one atomic store          *)
(* statement; a method with several statements is a request that sits in  *)
(* a slot of `reqs` between its statements, so that other requests can    *)
(* interleave exactly where the event loop lets them.                     *)
(***************************************************************************)
EXTENDS Integers, Sequences, FiniteSets, TLC

\* ------------------------------------------------------------------ bounds
\* scope of SpecStart: overlapping startCall requests, frozen clock
StartMaxCalls    == 2     \* call rows ever inserted
StartMaxInflight == 2     \* requests suspended at an await at the same time
StartMaxReqs     == 3     \* requests issued in one behaviour
\* scope of SpecCall: the life of the calls of one pair, with a running clock
CallMaxInflight  == 2
CallMaxTicks     == 2     \* clock advances
CallMaxReqs      == 3
\* scope of SpecMsg: the messages between u1 and u2
MsgMaxMsgs       == 2     \* message rows ever inserted
MsgMaxInflight   == 2
MsgMaxTicks      == 1
MsgMaxReqs       == 3
MaxLimit         == 2     \* largest page size asked for
\* scope of SpecList: what the listings of u1, u2 and u3 show
ListMaxMsgs      == 2
ListMaxReqs      == 3
\* scope of SpecIce: the ICE candidates two connected peers add to a call
IceMaxInflight   == 2
IceMaxReqs       == 4     \* one startCall and three candidates
\* scope of SpecConn: handshakes, connections and disconnections
ConnMaxSockets   == 3
ConnMaxReqs      == 1     \* socket events handled
\* scope of SpecPush: the messages two connected users send over sockets
PushMaxMsgs      == 2
PushMaxInflight  == 2
PushMaxReqs      == 3
\* scope of SpecRing: one call two connected users set up over sockets
RingMaxInflight  == 2
RingMaxTicks     == 1
RingMaxReqs      == 3
\* scope of SpecDial: start_call events of two users that overlap
DialMaxCalls     == 2
DialMaxInflight  == 2
DialMaxReqs      == 2
\* scope of SpecSignal: the signaling events of two connected peers
SignalMaxInflight == 2
SignalMaxReqs     == 3
\* scope of SpecDrop: connections that close while their sends are waiting
DropMaxMsgs      == 2
DropMaxInflight  == 2
DropMaxReqs      == 2
\* scope of SpecTyping: typing events next to stored calls and messages
TypingMaxReqs    == 3
\* scope of SpecAuth: the refresh tokens of one user
AuthMaxTokens    == 3     \* refresh tokens ever stored
AuthMaxInflight  == 2
AuthMaxTicks     == 1
AuthMaxReqs      == 4
\* scope of SpecHangup: end_call events of both participants that overlap
HangupMaxInflight == 2
HangupMaxTicks    == 1
HangupMaxReqs     == 3
\* scope of SpecIntrude: signaling events of a user outside the call
IntrudeMaxInflight == 2
IntrudeMaxReqs     == 3
\* scope of SpecFlags: the flags of the messages u1 sends to u2
FlagsMaxMsgs     == 2
FlagsMaxReqs     == 3
\* scope of SpecSock: the connections of u1 and u2 and their socket events
SockMaxSockets   == 2     \* connections ever accepted
SockMaxMsgs      == 1
SockMaxReqs      == 3     \* socket events handled

\* ------------------------------------------------------- program constants
MsPerSecond == 1000

\* ---------------------------------------------------------------- domains
Users     == {"u1", "u2", "u3"}     \* rows of `users` with is_active = true
Ghost     == "u0"                   \* an id with no active row in `users`
UserIds   == Users \cup {Ghost}
TickSizes == {500, 42000}           \* milliseconds the clock may jump
Absent    == "undefined"            \* a field missing from an event's payload
NoId      == 0                      \* a missing id / no entry in a Map
Null      == -1                     \* SQL NULL of a timestamp / integer column
NoReason  == "null"                 \* SQL NULL of end_reason
CallTypes == {"voice", "video"}
EndReasons == {"completed", "failed"}   \* of the three the route accepts
\* message contents and search strings, as sequences of characters
Contents  == {<<"h", "i">>, <<"H", "o">>}
Queries   == {<<"h">>, <<"O">>, <<"x">>}

ActiveStatuses   == {"initiated", "ringing", "answered"}
TerminalStatuses == {"ended", "missed", "rejected"}
UpdateStatuses   == {"ringing", "answered", "ended", "missed", "rejected"}

VARIABLES
  scope,      \* what one behaviour may contain (fixed by Init, never changed)
  now,        \* wall clock read by `new Date()`, in milliseconds
  ticks,      \* number of clock advances so far
  issued,     \* number of requests issued so far
  calls,      \* table `calls`: id -> row
  nextCallId, \* ids handed out so far + 1 (gen_random_uuid never repeats)
  msgs,       \* table `messages`: id -> row, ids in insertion order
  socks,          \* socket id -> the connection: its userId, and whether open
  connectedUsers, \* Map socketId -> SocketUser
  userSocketMap,  \* Map userId -> socketId (NoId: no entry)
  emitted,        \* the events the server has emitted, in order
  reqs,       \* slot -> request suspended between two store statements
  lastAck,    \* outcome of the request that completed last
  exited,     \* process.exit(1) has been called
  refresh_tokens, \* table `refresh_tokens`: id -> row
  nextTokenId     \* refresh token strings handed out so far + 1

vars == <<scope, now, ticks, issued, calls, nextCallId, msgs, socks,
          connectedUsers, userSocketMap, emitted, reqs, lastAck, exited,
          refresh_tokens, nextTokenId>>
callVars == <<calls, nextCallId>>
authVars == <<refresh_tokens, nextTokenId>>
msgVars  == <<msgs>>
sockVars == <<socks, connectedUsers, userSocketMap>>

\* ------------------------------------------------------------- helpers
\* callers/callees/senders/recipients/actors: the identities requests are
\* issued with; overlap: the operations whose requests may be suspended
\* while other requests run (every other operation runs its statements
\* back to back); tokens: the credentials connections are attempted with;
\* peers: the user ids the payload of a socket event may name
NoScope ==
  [callers |-> {}, callees |-> {}, kinds |-> {}, senders |-> {},
   recipients |-> {}, contents |-> {}, actors |-> {}, tickSizes |-> {},
   maxCalls |-> 0, maxMsgs |-> 0, maxInflight |-> 1, maxTicks |-> 0,
   maxReqs |-> 0, overlap |-> {}, tokens |-> {}, peers |-> {}, reasons |-> {},
   candidates |-> {},
   maxSocks |-> 0, maxTokens |-> 0, refreshExpiresIn |-> <<30, "d">>]

Slots  == DOMAIN reqs
Idle   == [op |-> "idle"]
FreeSlots == {s \in Slots : reqs[s].op = "idle"}
Slot0  == CHOOSE s \in FreeSlots : \A t \in FreeSlots : s <= t
\* no request that must run back to back is in the middle of its statements
Quiet  == \A s \in Slots : reqs[s].op \in scope.overlap \cup {"idle"}
\* the process is there to handle events and requests
Running == ~exited
CanIssue == Running /\ issued < scope.maxReqs /\ Quiet
CanSuspend == FreeSlots # {}
CanStep(s) == Running /\ (reqs[s].op \notin scope.overlap \/ Quiet)
CallIds == 1..scope.maxCalls

\* what the caller of a request is told: the operation and the error class
\* (AppError 404 NotFound, 403 Forbidden, 409 Conflict, 400 on a self-call
\* InvalidArgument, 400 on an ended call InvalidState; "None" is success)
\* AckOf adds, for the operations that report it, the acting user, the row
\* or user the request named and the number of rows the statement changed
AckOf(op, err, uid, id, n) == [op |-> op, err |-> err, uid |-> uid, id |-> id, n |-> n]
Ack(op, err) == AckOf(op, err, Ghost, 0, 0)
NoAck == Ack("none", "None")

\* a slip: only the caller counts as a party
IsCaller(c, u) == c.caller_id = u

IsParty(c, u) == c.caller_id = u \/ c.callee_id = u

\* the existence check of startCall
HasActiveCallFor(caller, callee) ==
  \E id \in DOMAIN calls :
    /\ \/ calls[id].caller_id = caller
       \/ calls[id].callee_id = caller
       \/ calls[id].caller_id = callee
       \/ calls[id].callee_id = callee
    /\ calls[id].status \in ActiveStatuses

NewCall(caller, callee, kind) ==
  [caller_id |-> caller, callee_id |-> callee, call_type |-> kind,
   status |-> "initiated", started_at |-> now, answered_at |-> Null,
   ended_at |-> Null, duration_seconds |-> Null, end_reason |-> NoReason,
   metadata |-> [created_via |-> "api"]]

\* a slip in the rounding: whole seconds rounded up
DurationSecondsCeil(startMs, endMs) ==
  (endMs - startMs + MsPerSecond - 1) \div MsPerSecond

\* Math.floor((end - start) / 1000)
DurationSeconds(startMs, endMs) == (endMs - startMs) \div MsPerSecond

\* the events the call handlers emit to one socket; live tells whether
\* the socket addressed was connected at that moment
IncomingCallEvent(socketId, callId, callerId, callType) ==
  [to |-> socketId, live |-> socks[socketId].open, event |-> "incoming_call",
   callId |-> callId, callerId |-> callerId, callType |-> callType]
CallStatusEvent(socketId, event, callId, by) ==
  [to |-> socketId, live |-> socks[socketId].open, event |-> event,
   callId |-> callId, by |-> by]
CallEndedEvent(socketId, callId, endedBy, endReason, duration) ==
  [to |-> socketId, live |-> socks[socketId].open, event |-> "call_ended",
   callId |-> callId, endedBy |-> endedBy, endReason |-> endReason,
   duration |-> duration]

\* ------------------------------------------------------------------ clock
Tick ==
  /\ ticks < scope.maxTicks
  /\ Running /\ Quiet
  /\ \E d \in scope.tickSizes : now' = now + d
  /\ ticks' = ticks + 1
  /\ UNCHANGED <<scope, authVars, exited, issued, callVars, msgVars, reqs, lastAck, sockVars, emitted>>

\* -------------------------------------------------------------- startCall
\* sock is the socket whose start_call handler made the call, NoId when
\* the controller made it
\* first statement: callee lookup, then the self-call test
StartCallLookup(sock, caller, callee, kind) ==
  /\ CanIssue /\ CanSuspend
  /\ nextCallId <= scope.maxCalls
  /\ issued' = issued + 1
  /\ IF ~(callee \in Users)
       THEN /\ lastAck' = Ack("startCall", "NotFound")
            /\ UNCHANGED reqs
       ELSE IF caller = callee
         THEN /\ lastAck' = Ack("startCall", "InvalidArgument")
              /\ UNCHANGED reqs
         ELSE /\ reqs' = [reqs EXCEPT ![Slot0] =
                            [op |-> "startCall", pc |-> "check", sock |-> sock,
                             uid |-> caller, callee |-> callee, kind |-> kind]]
              /\ UNCHANGED lastAck
  /\ UNCHANGED <<scope, authVars, exited, now, ticks, callVars, msgVars, sockVars, emitted>>

\* second statement: is either party in a non-terminal call?
StartCallCheck(s) ==
  /\ reqs[s].op = "startCall" /\ reqs[s].pc = "check"
  /\ CanStep(s)
  /\ IF HasActiveCallFor(reqs[s].uid, reqs[s].callee)
       THEN /\ lastAck' = Ack("startCall", "Conflict")
            /\ reqs' = [reqs EXCEPT ![s] = Idle]
       ELSE /\ reqs' = [reqs EXCEPT ![s].pc = "insert"]
            /\ UNCHANGED lastAck
  /\ UNCHANGED <<scope, authVars, exited, now, ticks, issued, callVars, msgVars, sockVars, emitted>>

\* third statement: the insert.  The controller then answers; the
\* start_call handler looks the callee up in userSocketMap: if a socket is
\* registered it emits incoming_call and calls updateCallStatus(id,
\* 'ringing'), otherwise it acknowledges
StartCallInsert(s) ==
  /\ reqs[s].op = "startCall" /\ reqs[s].pc = "insert"
  /\ CanStep(s)
  /\ nextCallId <= scope.maxCalls
  /\ calls' = [id \in DOMAIN calls \cup {nextCallId} |->
                 IF id = nextCallId
                   THEN NewCall(reqs[s].uid, reqs[s].callee, reqs[s].kind)
                   ELSE calls[id]]
  /\ nextCallId' = nextCallId + 1
  /\ IF reqs[s].sock = NoId
       THEN /\ lastAck' = Ack("startCall", "None")
            /\ reqs' = [reqs EXCEPT ![s] = Idle]
            /\ UNCHANGED emitted
       ELSE IF userSocketMap[reqs[s].callee] # NoId
         THEN /\ emitted' = Append(emitted,
                                   IncomingCallEvent(userSocketMap[reqs[s].callee],
                                                     nextCallId, reqs[s].uid,
                                                     reqs[s].kind))
              /\ reqs' = [reqs EXCEPT ![s] =
                            [op |-> "start_call", pc |-> "read",
                             uid |-> reqs[s].uid, cid |-> nextCallId]]
              /\ UNCHANGED lastAck
         ELSE /\ lastAck' = AckOf("start_call", "None", reqs[s].uid, nextCallId, 0)
              /\ reqs' = [reqs EXCEPT ![s] = Idle]
              /\ UNCHANGED emitted
  /\ UNCHANGED <<scope, authVars, exited, now, ticks, issued, msgVars, sockVars>>

\* ------------------------------------------------------- updateCallStatus
\* a slip: the status is left as it was
UpdatedRowStale(row, answeredAt, status) == row

\* the row as the update statement of updateCallStatus leaves it;
\* answeredAt is the answered_at of the row read by the first statement
UpdatedRow(row, answeredAt, status) ==
  CASE status = "answered" ->
         [row EXCEPT !.status = status, !.answered_at = now]
    [] status \in TerminalStatuses ->
         IF answeredAt # Null
           THEN [row EXCEPT !.status = status, !.ended_at = now,
                            !.duration_seconds = DurationSeconds(answeredAt, now)]
           ELSE [row EXCEPT !.status = status, !.ended_at = now]
    [] OTHER -> [row EXCEPT !.status = status]

\* the event a handler emits after updateCallStatus to that status
StatusEventName(status) ==
  IF status = "answered" THEN "call_answered" ELSE "call_rejected"
\* the socket event that asks for that status
StatusRequestName(status) ==
  IF status = "answered" THEN "answer_call" ELSE "reject_call"

\* sock is the socket whose answer_call or reject_call handler made the
\* call, NoId when the controller made it
\* first statement: read the row; then the participant test, which is
\* skipped when the caller passes no userId (hasUser = FALSE)
UpdateCallStatusRead(sock, cid, status, uid, hasUser) ==
  /\ CanIssue /\ CanSuspend
  /\ issued' = issued + 1
  /\ IF cid \notin DOMAIN calls
       THEN /\ lastAck' = AckOf("updateCallStatus", "NotFound", uid, cid, 0)
            /\ UNCHANGED reqs
       ELSE IF hasUser /\ ~IsParty(calls[cid], uid)
         THEN /\ lastAck' = AckOf("updateCallStatus", "Forbidden", uid, cid, 0)
              /\ UNCHANGED reqs
         ELSE /\ reqs' = [reqs EXCEPT ![Slot0] =
                            [op |-> "updateCallStatus", pc |-> "update",
                             sock |-> sock,
                             uid |-> IF hasUser THEN uid ELSE Absent,
                             cid |-> cid, status |-> status,
                             answeredAt |-> calls[cid].answered_at]]
              /\ UNCHANGED lastAck
  /\ UNCHANGED <<scope, authVars, exited, now, ticks, callVars, msgVars, sockVars, emitted>>

\* second statement: update ... where id = callId returning *.  The
\* controller then answers; the answer_call / reject_call handler emits its
\* event to the socket registered for the caller_id of the row returned,
\* and fails on reading caller_id when no row was returned
UpdateCallStatusWrite(s) ==
  /\ reqs[s].op = "updateCallStatus" /\ reqs[s].pc = "update"
  /\ CanStep(s)
  /\ IF reqs[s].cid \in DOMAIN calls
       THEN calls' = [calls EXCEPT ![reqs[s].cid] =
                        UpdatedRow(@, reqs[s].answeredAt, reqs[s].status)]
       ELSE UNCHANGED calls
  /\ IF reqs[s].sock = NoId
       THEN /\ lastAck' = Ack("updateCallStatus", "None")
            /\ UNCHANGED emitted
       ELSE IF reqs[s].cid \in DOMAIN calls
         THEN LET callerSocketId == userSocketMap[calls[reqs[s].cid].caller_id]
              IN /\ emitted' =
                      IF callerSocketId # NoId
                        THEN Append(emitted,
                                    CallStatusEvent(callerSocketId,
                                                    StatusEventName(reqs[s].status),
                                                    reqs[s].cid, reqs[s].uid))
                        ELSE emitted
                 /\ lastAck' = AckOf(StatusRequestName(reqs[s].status), "None",
                                     reqs[s].uid, reqs[s].cid, 0)
         ELSE /\ lastAck' = AckOf(StatusRequestName(reqs[s].status), "Internal",
                                  reqs[s].uid, reqs[s].cid, 0)
              /\ UNCHANGED emitted
  /\ reqs' = [reqs EXCEPT ![s] = Idle]
  /\ UNCHANGED <<scope, authVars, exited, now, ticks, issued, nextCallId, msgVars, sockVars>>

\* ---------------------------------------------------------------- endCall
\* the row as the update statement of endCall leaves it
EndedRow(row, answeredAt, reason) ==
  [row EXCEPT !.status = "ended", !.ended_at = now,
              !.duration_seconds =
                 IF answeredAt # Null THEN DurationSeconds(answeredAt, now) ELSE 0,
              !.end_reason = reason]

\* the test endCall makes on the row it read before it goes on
AlreadyEnded(row) == row.status = "ended"

\* a slip: the caller is taken for the other participant
CallerOf(row, userId) == row.caller_id

\* the participant of the row who is not userId
OtherParty(row, userId) ==
  IF row.caller_id = userId THEN row.callee_id ELSE row.caller_id

\* sock is the socket whose end_call handler made the call, NoId when the
\* controller made it
\* first statement: read the row of which uid is a party; then the
\* already-ended test
EndCallRead(sock, cid, uid, reason) ==
  /\ CanIssue /\ CanSuspend
  /\ issued' = issued + 1
  /\ IF cid \notin DOMAIN calls \/ ~IsParty(calls[cid], uid)
       THEN /\ lastAck' = AckOf("endCall", "NotFound", uid, cid, 0)
            /\ UNCHANGED reqs
       ELSE IF AlreadyEnded(calls[cid])
         THEN /\ lastAck' = Ack("endCall", "InvalidState")
              /\ UNCHANGED reqs
         ELSE /\ reqs' = [reqs EXCEPT ![Slot0] =
                            [op |-> "endCall", pc |-> "update", sock |-> sock,
                             uid |-> uid, cid |-> cid, reason |-> reason,
                             answeredAt |-> calls[cid].answered_at]]
              /\ UNCHANGED lastAck
  /\ UNCHANGED <<scope, authVars, exited, now, ticks, callVars, msgVars, sockVars, emitted>>

\* second statement: update ... where id = callId returning *.  The
\* controller then answers; the end_call handler emits call_ended, with the
\* duration_seconds of the row returned, to the socket registered for its
\* other participant, and fails on reading caller_id when no row was returned
EndCallWrite(s) ==
  /\ reqs[s].op = "endCall" /\ reqs[s].pc = "update"
  /\ CanStep(s)
  /\ IF reqs[s].cid \in DOMAIN calls
       THEN calls' = [calls EXCEPT ![reqs[s].cid] =
                        EndedRow(@, reqs[s].answeredAt, reqs[s].reason)]
       ELSE UNCHANGED calls
  /\ IF reqs[s].sock = NoId
       THEN /\ lastAck' = Ack("endCall", "None")
            /\ UNCHANGED emitted
       ELSE IF reqs[s].cid \in DOMAIN calls
         THEN LET call == calls'[reqs[s].cid]
                  otherSocketId == userSocketMap[OtherParty(call, reqs[s].uid)]
              IN /\ emitted' =
                      IF otherSocketId # NoId
                        THEN Append(emitted,
                                    CallEndedEvent(otherSocketId, reqs[s].cid,
                                                   reqs[s].uid, reqs[s].reason,
                                                   call.duration_seconds))
                        ELSE emitted
                 /\ lastAck' = AckOf("end_call", "None", reqs[s].uid, reqs[s].cid, 0)
         ELSE /\ lastAck' = AckOf("end_call", "Internal", reqs[s].uid, reqs[s].cid, 0)
              /\ UNCHANGED emitted
  /\ reqs' = [reqs EXCEPT ![s] = Idle]
  /\ UNCHANGED <<scope, authVars, exited, now, ticks, issued, nextCallId, msgVars, sockVars>>

\* ------------------------------------------------------------- deleteCall
\* one statement: delete from calls where id = callId and uid is a party
DeleteCall(cid, uid) ==
  /\ CanIssue
  /\ issued' = issued + 1
  /\ IF cid \in DOMAIN calls /\ IsParty(calls[cid], uid)
       THEN /\ calls' = [id \in DOMAIN calls \ {cid} |-> calls[id]]
            /\ lastAck' = Ack("deleteCall", "None")
       ELSE /\ lastAck' = Ack("deleteCall", "NotFound")
            /\ UNCHANGED calls
  /\ UNCHANGED <<scope, authVars, exited, now, ticks, nextCallId, msgVars, reqs, sockVars, emitted>>

\* ---------------------------------------------------------- getActiveCall
ActiveCallIdsOf(u) ==
  {id \in DOMAIN calls : IsParty(calls[id], u) /\ calls[id].status \in ActiveStatuses}

\* the rows orderBy('started_at', 'desc').first() may return: the latest
\* of the user's non-terminal calls, any of them where started_at ties;
\* {NoId} stands for null
GetActiveCall(userId) ==
  IF ActiveCallIdsOf(userId) = {} THEN {NoId}
  ELSE {c \in ActiveCallIdsOf(userId) :
          \A k \in ActiveCallIdsOf(userId) :
            calls[k].started_at <= calls[c].started_at}

\* ============================================================= sockets
\* A credential: the user it names, and whether jwt.verify accepts it (a
\* missing token, a bad signature and an expired token are all ok = FALSE)
Token(sub, ok) == [sub |-> sub, ok |-> ok]
\* a handshake that carries no token at all
NoToken == Token(Ghost, FALSE)

\* a slip: the token is decoded but not verified
Decodes(token) == TRUE

\* the middleware's test: a token is there and jwt.verify does not throw
Verified(token) == token.ok

OpenSockets == {s \in DOMAIN socks : socks[s].open}

\* the events the server emits; to = NoId is io.emit to every socket, and
\* live tells whether the socket addressed was connected at that moment
StatusEvent(userId, isOnline) ==
  [to |-> NoId, event |-> "user_status", userId |-> userId, isOnline |-> isOnline]
NewMessageEvent(socketId, id, message) ==
  [to |-> socketId, live |-> socks[socketId].open, event |-> "new_message",
   id |-> id, content |-> message.content]
MessageReadEvent(socketId, readBy, messageId) ==
  [to |-> socketId, live |-> socks[socketId].open, event |-> "message_read",
   readBy |-> readBy, messageId |-> messageId]

\* a slip: the entry is left in the Map
NotRemoved(f, k) == f

\* a Map without the key k
Without(f, k) == [x \in DOMAIN f \ {k} |-> f[x]]

\* the handshake middleware, then handleConnection
Connect(token) ==
  /\ Running /\ Quiet
  /\ Len(socks) < scope.maxSocks
  /\ IF ~Verified(token)
       THEN /\ lastAck' = Ack("connect", "Unauthorized")
            /\ UNCHANGED <<sockVars, emitted>>
       ELSE LET userId == token.sub
                id == Len(socks) + 1
            IN /\ socks' = Append(socks, [userId |-> userId, open |-> TRUE])
               /\ connectedUsers' =
                    (id :> [userId |-> userId, socketId |-> id,
                            isOnline |-> TRUE, lastSeen |-> now]) @@ connectedUsers
               /\ userSocketMap' = [userSocketMap EXCEPT ![userId] = id]
               /\ emitted' = Append(emitted, StatusEvent(userId, TRUE))
               /\ lastAck' = AckOf("connect", "None", userId, id, 0)
  /\ UNCHANGED <<scope, authVars, exited, now, ticks, issued, callVars, msgVars, reqs>>

\* a slip: the handlers of the socket that wait at an await are dropped
\* with it
DisconnectAborting(id) ==
  /\ Running /\ Quiet
  /\ id \in OpenSockets
  /\ LET userId == socks[id].userId
     IN /\ socks' = [socks EXCEPT ![id].open = FALSE]
        /\ connectedUsers' = Without(connectedUsers, id)
        /\ userSocketMap' = [userSocketMap EXCEPT ![userId] = NoId]
        /\ emitted' = Append(emitted, StatusEvent(userId, FALSE))
        /\ reqs' = [s \in Slots |->
                      IF reqs[s].op = "sendMessage" /\ reqs[s].sock = id
                        THEN Idle ELSE reqs[s]]
  /\ UNCHANGED <<scope, authVars, exited, now, ticks, issued, callVars, msgVars, lastAck>>

\* the socket's disconnect event: handleDisconnection
Disconnect(id) ==
  /\ Running /\ Quiet
  /\ id \in OpenSockets
  /\ LET userId == socks[id].userId
     IN /\ socks' = [socks EXCEPT ![id].open = FALSE]
        /\ connectedUsers' = Without(connectedUsers, id)
        /\ userSocketMap' = [userSocketMap EXCEPT ![userId] = NoId]
        /\ emitted' = Append(emitted, StatusEvent(userId, FALSE))
  /\ UNCHANGED <<scope, authVars, exited, now, ticks, issued, callVars, msgVars, reqs, lastAck>>

\* getUserOnlineStatus
GetUserOnlineStatus(userId) == userSocketMap[userId] # NoId

\* ------------------------------------------------------- addIceCandidate
\* COALESCE(metadata::jsonb->'ice_candidates', '[]'::jsonb)
IceCandidatesOf(metadata) ==
  IF "ice_candidates" \in DOMAIN metadata THEN metadata.ice_candidates ELSE <<>>

\* a slip: the key is set to the new candidate alone
WithIceCandidateOnly(metadata, candidate) ==
  ("ice_candidates" :> <<candidate>>) @@ metadata

\* jsonb_set(metadata, '{ice_candidates}', <old array> || [candidate], true)
WithIceCandidate(metadata, candidate) ==
  ("ice_candidates" :> Append(IceCandidatesOf(metadata), candidate)) @@ metadata

\* an event the signaling handlers pass on to the target's socket
RelayEvent(socketId, event, callId, payload, fromUserId) ==
  [to |-> socketId, live |-> socks[socketId].open, event |-> event,
   callId |-> callId, payload |-> payload, fromUserId |-> fromUserId]

\* webrtc_ice_candidate, up to its await: the update statement of
\* addIceCandidate, which changes the row with that id if there is one
IceCandidateEvent(id, callId, candidate, targetUserId) ==
  /\ id \in OpenSockets
  /\ CanIssue /\ CanSuspend
  /\ issued' = issued + 1
  /\ calls' = [c \in DOMAIN calls |->
                 IF c = callId
                   THEN [calls[c] EXCEPT !.metadata = WithIceCandidate(@, candidate)]
                   ELSE calls[c]]
  /\ reqs' = [reqs EXCEPT ![Slot0] =
                [op |-> "webrtc_ice_candidate", pc |-> "relay",
                 uid |-> socks[id].userId, cid |-> callId,
                 candidate |-> candidate, targetUserId |-> targetUserId]]
  /\ UNCHANGED <<scope, authVars, exited, now, ticks, nextCallId, msgVars, sockVars, emitted, lastAck>>

\* webrtc_ice_candidate, after its await: the candidate is passed on to the
\* socket registered for the targetUserId of the payload, if any
IceCandidateRelay(s) ==
  /\ reqs[s].op = "webrtc_ice_candidate" /\ reqs[s].pc = "relay"
  /\ CanStep(s)
  /\ LET targetSocketId == IF reqs[s].targetUserId = Absent THEN NoId
                           ELSE userSocketMap[reqs[s].targetUserId]
     IN emitted' = IF targetSocketId # NoId
                     THEN Append(emitted,
                                 RelayEvent(targetSocketId, "webrtc_ice_candidate",
                                            reqs[s].cid, reqs[s].candidate, reqs[s].uid))
                     ELSE emitted
  /\ lastAck' = AckOf("webrtc_ice_candidate", "None", reqs[s].uid, reqs[s].cid, 0)
  /\ reqs' = [reqs EXCEPT ![s] = Idle]
  /\ UNCHANGED <<scope, authVars, exited, now, ticks, issued, callVars, msgVars, sockVars>>

\* ------------------------------------------- createOffer / createAnswer
\* a slip: the metadata is replaced by the offer alone
WithOfferOnly(metadata, offer) == [offer |-> offer]

\* jsonb_set(metadata::jsonb, '{offer}', offer, true)::json
WithOffer(metadata, offer) == ("offer" :> offer) @@ metadata

\* the unhandledRejection handler: process.exit(1).  Every connection
\* drops without its disconnect handler having run, the two Maps and every
\* handler waiting at an await go with the process; the store stays
ProcessExit ==
  /\ exited' = TRUE
  /\ socks' = [i \in DOMAIN socks |-> [socks[i] EXCEPT !.open = FALSE]]
  /\ connectedUsers' = <<>>
  /\ userSocketMap' = [u \in UserIds |-> NoId]
  /\ reqs' = [s \in Slots |-> Idle]

\* webrtc_offer, up to its await: the update statement of createOffer,
\* which changes the row with that id if there is one
WebrtcOfferEvent(id, callId, offer, targetUserId) ==
  /\ id \in OpenSockets
  /\ CanIssue /\ CanSuspend
  /\ issued' = issued + 1
  /\ calls' = [c \in DOMAIN calls |->
                 IF c = callId
                   THEN [calls[c] EXCEPT !.metadata = WithOffer(@, offer)]
                   ELSE calls[c]]
  /\ reqs' = [reqs EXCEPT ![Slot0] =
                [op |-> "webrtc_offer", pc |-> "relay",
                 uid |-> socks[id].userId, cid |-> callId,
                 offer |-> offer, targetUserId |-> targetUserId]]
  /\ UNCHANGED <<scope, authVars, exited, now, ticks, nextCallId, msgVars, sockVars, emitted, lastAck>>

\* webrtc_offer, after its await: the offer is passed on to the socket
\* registered for the targetUserId of the payload, if any
WebrtcOfferRelay(s) ==
  /\ reqs[s].op = "webrtc_offer" /\ reqs[s].pc = "relay"
  /\ CanStep(s)
  /\ LET targetSocketId == IF reqs[s].targetUserId = Absent THEN NoId
                           ELSE userSocketMap[reqs[s].targetUserId]
     IN emitted' = IF targetSocketId # NoId
                     THEN Append(emitted,
                                 RelayEvent(targetSocketId, "webrtc_offer",
                                            reqs[s].cid, reqs[s].offer, reqs[s].uid))
                     ELSE emitted
  /\ lastAck' = AckOf("webrtc_offer", "None", reqs[s].uid, reqs[s].cid, 0)
  /\ reqs' = [reqs EXCEPT ![s] = Idle]
  /\ UNCHANGED <<scope, authVars, exited, now, ticks, issued, callVars, msgVars, sockVars>>

\* webrtc_answer, up to its await: the update statement of createAnswer is
\* sent.  It calls jsonb_set(metadata, ...) on the json column metadata
\* without the ::jsonb cast the other two have: there is no
\* jsonb_set(json, ...), the statement is refused and no row changes
WebrtcAnswerEvent(id, callId, answer, targetUserId) ==
  /\ id \in OpenSockets
  /\ CanIssue /\ CanSuspend
  /\ issued' = issued + 1
  /\ reqs' = [reqs EXCEPT ![Slot0] =
                [op |-> "webrtc_answer", pc |-> "rejected",
                 uid |-> socks[id].userId, cid |-> callId,
                 answer |-> answer, targetUserId |-> targetUserId]]
  /\ UNCHANGED <<scope, authVars, exited, now, ticks, callVars, msgVars, sockVars, emitted, lastAck>>

\* webrtc_answer, after its await: the store's error is thrown in the
\* handler, which has no try/catch; its promise is rejected with nobody
\* handling it, and the process exits
WebrtcAnswerReject(s) ==
  /\ reqs[s].op = "webrtc_answer" /\ reqs[s].pc = "rejected"
  /\ CanStep(s)
  /\ ProcessExit
  /\ lastAck' = AckOf("webrtc_answer", "Unhandled", reqs[s].uid, reqs[s].cid, 0)
  /\ UNCHANGED <<scope, authVars, now, ticks, issued, callVars, msgVars, emitted>>

\* ---------------------------------------------------------- typing events
UserTypingEvent(socketId, userId, typing) ==
  [to |-> socketId, live |-> socks[socketId].open, event |-> "user_typing",
   userId |-> userId, typing |-> typing]

\* a slip: the last socket the user connected with, registered or not
LastSocketOf(recipientId) ==
  IF \E i \in DOMAIN socks : socks[i].userId = recipientId
    THEN CHOOSE i \in DOMAIN socks :
           /\ socks[i].userId = recipientId
           /\ \A j \in DOMAIN socks : socks[j].userId = recipientId => j <= i
    ELSE NoId

\* this.userSocketMap.get(recipientId)
SocketOf(recipientId) ==
  IF recipientId = Absent THEN NoId ELSE userSocketMap[recipientId]

\* typing_start (typing = TRUE) and typing_stop (typing = FALSE): no await
TypingEvent(id, recipientId, typing) ==
  /\ id \in OpenSockets
  /\ CanIssue
  /\ issued' = issued + 1
  /\ emitted' = IF SocketOf(recipientId) # NoId
                  THEN Append(emitted,
                              UserTypingEvent(SocketOf(recipientId),
                                              socks[id].userId, typing))
                  ELSE emitted
  /\ lastAck' = AckOf(IF typing THEN "typing_start" ELSE "typing_stop", "None",
                      socks[id].userId, 0, 0)
  /\ UNCHANGED <<scope, authVars, exited, now, ticks, callVars, msgVars, sockVars, reqs>>

\* ---------------------------------------------------- socket call events
\* start_call: startCall is called for the socket's user
StartCallEvent(id, calleeId, callType) ==
  /\ id \in OpenSockets
  /\ StartCallLookup(id, socks[id].userId, calleeId, callType)

\* start_call, in updateCallStatus(call.id, 'ringing'): the read
StartCallRingRead(s) ==
  /\ reqs[s].op = "start_call" /\ reqs[s].pc = "read"
  /\ CanStep(s)
  /\ IF reqs[s].cid \notin DOMAIN calls
       THEN /\ lastAck' = AckOf("start_call", "NotFound", reqs[s].uid, reqs[s].cid, 0)
            /\ reqs' = [reqs EXCEPT ![s] = Idle]
       ELSE /\ reqs' = [reqs EXCEPT ![s].pc = "update"]
            /\ UNCHANGED lastAck
  /\ UNCHANGED <<scope, authVars, exited, now, ticks, issued, callVars, msgVars, sockVars, emitted>>

\* start_call, in updateCallStatus(call.id, 'ringing'): the update, after
\* which the handler acknowledges
StartCallRingWrite(s) ==
  /\ reqs[s].op = "start_call" /\ reqs[s].pc = "update"
  /\ CanStep(s)
  /\ IF reqs[s].cid \in DOMAIN calls
       THEN calls' = [calls EXCEPT ![reqs[s].cid] = UpdatedRow(@, Null, "ringing")]
       ELSE UNCHANGED calls
  /\ lastAck' = AckOf("start_call", "None", reqs[s].uid, reqs[s].cid, 1)
  /\ reqs' = [reqs EXCEPT ![s] = Idle]
  /\ UNCHANGED <<scope, authVars, exited, now, ticks, issued, nextCallId, msgVars, sockVars, emitted>>

\* answer_call and reject_call: updateCallStatus is called for the socket's
\* user
CallStatusRequest(id, callId, status) ==
  /\ id \in OpenSockets
  /\ UpdateCallStatusRead(id, callId, status, socks[id].userId, TRUE)

\* end_call: endCall is called for the socket's user
EndCallEvent(id, callId, endReason) ==
  /\ id \in OpenSockets
  /\ EndCallRead(id, callId, socks[id].userId, endReason)

\* ============================================================= messages
MsgIds == 1..scope.maxMsgs

NewMessage(sender, recipient, content) ==
  [sender_id |-> sender, recipient_id |-> recipient, content |-> content,
   is_read |-> FALSE, read_at |-> Null, is_deleted |-> FALSE,
   deleted_at |-> Null, created_at |-> now]

\* ------------------------------------------------------------ sendMessage
\* the place of a new send_message event in the order of arrival on its
\* socket: after every send of that socket still waiting for its lookup
\* (calls of the controller arrive in no order: 0)
NextSeq(sock) ==
  LET waiting == {t \in Slots : reqs[t].op = "sendMessage" /\ reqs[t].sock = sock}
  IN IF sock = NoId THEN 0
     ELSE IF waiting = {} THEN 1
     ELSE 1 + (CHOOSE n \in {reqs[t].seq : t \in waiting} :
                 \A t \in waiting : reqs[t].seq <= n)

\* a slip: the recipient is not looked up
AnyRecipient(recipient) == TRUE

\* the recipient lookup: a row of users with that id and is_active = true
RecipientExists(recipient) == recipient \in Users

\* sock is the socket whose send_message handler made the call, NoId when
\* the controller made it; seq is the event's place in the order of
\* arrival on that socket
\* first statement: recipient lookup
SendMessageLookup(sock, sender, recipient, content) ==
  /\ CanIssue /\ CanSuspend
  /\ Len(msgs) < scope.maxMsgs
  /\ issued' = issued + 1
  /\ IF ~RecipientExists(recipient)
       THEN /\ lastAck' = Ack("sendMessage", "NotFound")
            /\ UNCHANGED reqs
       ELSE /\ reqs' = [reqs EXCEPT ![Slot0] =
                          [op |-> "sendMessage", pc |-> "insert", sock |-> sock,
                           seq |-> NextSeq(sock), uid |-> sender, recipient |-> recipient, content |-> content]]
            /\ UNCHANGED lastAck
  /\ UNCHANGED <<scope, authVars, exited, now, ticks, callVars, msgVars, sockVars, emitted>>

\* second statement: the insert; the send_message handler then pushes
\* new_message to the socket registered for the recipient, if any
SendMessageInsert(s) ==
  /\ reqs[s].op = "sendMessage" /\ reqs[s].pc = "insert"
  /\ CanStep(s)
  /\ Len(msgs) < scope.maxMsgs
  /\ msgs' = Append(msgs, NewMessage(reqs[s].uid, reqs[s].recipient, reqs[s].content))
  /\ lastAck' = AckOf("sendMessage", "None", reqs[s].uid, Len(msgs) + 1, 1)
  /\ reqs' = [reqs EXCEPT ![s] = Idle]
  /\ LET recipientSocketId == userSocketMap[reqs[s].recipient]
     IN emitted' = IF reqs[s].sock # NoId /\ recipientSocketId # NoId
                     THEN Append(emitted,
                                 NewMessageEvent(recipientSocketId, Len(msgs) + 1,
                                                 msgs'[Len(msgs) + 1]))
                     ELSE emitted
  /\ UNCHANGED <<scope, authVars, exited, now, ticks, issued, callVars, sockVars>>

\* ------------------------------------------- markMessageAsRead / markMessagesAsRead
\* what the update statement of both writes on a row it matches
ReadRow(row) == [row EXCEPT !.is_read = TRUE, !.read_at = now]

\* a slip: the is_read = false condition left out
UnreadForAny(messageId, userId) ==
  {m \in DOMAIN msgs : m = messageId /\ msgs[m].recipient_id = userId}

\* rows matched by: where id = messageId and recipient_id = userId and
\* is_read = false
UnreadFor(messageId, userId) ==
  {m \in DOMAIN msgs : /\ m = messageId
                       /\ msgs[m].recipient_id = userId
                       /\ msgs[m].is_read = FALSE}

\* a slip: the recipient_id = recipientId condition left out
UnreadFromSender(senderId, recipientId) ==
  {m \in DOMAIN msgs : /\ msgs[m].sender_id = senderId
                       /\ msgs[m].is_read = FALSE}

\* rows matched by: where sender_id = senderId and recipient_id =
\* recipientId and is_read = false
UnreadFrom(senderId, recipientId) ==
  {m \in DOMAIN msgs : /\ msgs[m].sender_id = senderId
                       /\ msgs[m].recipient_id = recipientId
                       /\ msgs[m].is_read = FALSE}

MarkMessageAsRead(messageId, userId) ==
  /\ CanIssue
  /\ issued' = issued + 1
  /\ LET hit == UnreadFor(messageId, userId)
     IN /\ msgs' = [m \in DOMAIN msgs |-> IF m \in hit THEN ReadRow(msgs[m]) ELSE msgs[m]]
        /\ lastAck' = AckOf("markMessageAsRead", "None", userId, messageId, Cardinality(hit))
  /\ UNCHANGED <<scope, authVars, exited, now, ticks, callVars, reqs, sockVars, emitted>>

MarkMessagesAsRead(senderId, recipientId) ==
  /\ CanIssue
  /\ issued' = issued + 1
  /\ LET hit == UnreadFrom(senderId, recipientId)
     IN /\ msgs' = [m \in DOMAIN msgs |-> IF m \in hit THEN ReadRow(msgs[m]) ELSE msgs[m]]
        /\ lastAck' = AckOf("markMessagesAsRead", "None", recipientId, 0, Cardinality(hit))
  /\ UNCHANGED <<scope, authVars, exited, now, ticks, callVars, reqs, sockVars, emitted>>

\* ---------------------------------------------- deleteMessage / deleteConversation
\* a slip: the flag is flipped, so a second delete brings the row back
DeletedRowFlipped(row) == [row EXCEPT !.is_deleted = ~@, !.deleted_at = now]

DeletedRow(row) == [row EXCEPT !.is_deleted = TRUE, !.deleted_at = now]

\* a slip: the sender/recipient condition left out of the lookup
IsAnyone(row, u) == TRUE

IsMsgParty(row, u) == row.sender_id = u \/ row.recipient_id = u

\* first statement: read the row of which userId is sender or recipient
DeleteMessageRead(messageId, userId) ==
  /\ CanIssue /\ CanSuspend
  /\ issued' = issued + 1
  /\ IF messageId \notin DOMAIN msgs \/ ~IsMsgParty(msgs[messageId], userId)
       THEN /\ lastAck' = AckOf("deleteMessage", "NotFound", userId, messageId, 0)
            /\ UNCHANGED reqs
       ELSE /\ reqs' = [reqs EXCEPT ![Slot0] =
                          [op |-> "deleteMessage", pc |-> "update", uid |-> userId,
                           mid |-> messageId]]
            /\ UNCHANGED lastAck
  /\ UNCHANGED <<scope, authVars, exited, now, ticks, callVars, msgVars, sockVars, emitted>>

\* second statement: update ... where id = messageId
DeleteMessageWrite(s) ==
  /\ reqs[s].op = "deleteMessage" /\ reqs[s].pc = "update"
  /\ CanStep(s)
  /\ msgs' = [msgs EXCEPT ![reqs[s].mid] = DeletedRow(@)]
  /\ lastAck' = Ack("deleteMessage", "None")
  /\ reqs' = [reqs EXCEPT ![s] = Idle]
  /\ UNCHANGED <<scope, authVars, exited, now, ticks, issued, callVars, sockVars, emitted>>

\* the rows between two users, in either direction
Between(a, b) ==
  {m \in DOMAIN msgs :
     \/ (msgs[m].sender_id = a /\ msgs[m].recipient_id = b)
     \/ (msgs[m].sender_id = b /\ msgs[m].recipient_id = a)}

\* one statement: update every row between the two users
DeleteConversation(userId, otherUserId) ==
  /\ CanIssue
  /\ issued' = issued + 1
  /\ LET hit == Between(userId, otherUserId)
     IN /\ msgs' = [m \in DOMAIN msgs |-> IF m \in hit THEN DeletedRow(msgs[m]) ELSE msgs[m]]
        /\ lastAck' = AckOf("deleteConversation", "None", userId, 0, Cardinality(hit))
  /\ UNCHANGED <<scope, authVars, exited, now, ticks, callVars, reqs, sockVars, emitted>>

\* ------------------------------------------------- socket message events
\* send_message: the payload is tested, then sendMessage is called for the
\* socket's user
SendMessageEvent(id, recipientId, content) ==
  /\ id \in OpenSockets
  /\ IF recipientId = Absent \/ content = <<>>
       THEN /\ CanIssue
            /\ issued' = issued + 1
            /\ lastAck' = Ack("send_message", "MissingFields")
            /\ UNCHANGED <<scope, authVars, exited, now, ticks, callVars, msgVars, sockVars,
                           emitted, reqs>>
       ELSE SendMessageLookup(id, socks[id].userId, recipientId, content)

\* mark_read, up to its await: the update statement of markMessageAsRead
\* when the payload has a messageId, else of markMessagesAsRead when it has
\* a senderId
MarkReadEvent(id, messageId, senderId) ==
  /\ id \in OpenSockets
  /\ CanIssue /\ CanSuspend
  /\ issued' = issued + 1
  /\ LET userId == socks[id].userId
         hit == IF messageId # NoId THEN UnreadFor(messageId, userId)
                ELSE IF senderId # Absent THEN UnreadFrom(senderId, userId)
                ELSE {}
     IN /\ msgs' = [m \in DOMAIN msgs |->
                      IF m \in hit THEN ReadRow(msgs[m]) ELSE msgs[m]]
        /\ reqs' = [reqs EXCEPT ![Slot0] =
                      [op |-> "mark_read", pc |-> "notify", uid |-> userId,
                       mid |-> messageId, senderId |-> senderId,
                       n |-> Cardinality(hit)]]
  /\ UNCHANGED <<scope, authVars, exited, now, ticks, callVars, sockVars, emitted, lastAck>>

\* mark_read, after its await: message_read is pushed to the socket
\* registered for the senderId of the payload, if any
MarkReadNotify(s) ==
  /\ reqs[s].op = "mark_read" /\ reqs[s].pc = "notify"
  /\ CanStep(s)
  /\ LET senderSocketId == IF reqs[s].senderId = Absent THEN NoId
                           ELSE userSocketMap[reqs[s].senderId]
     IN emitted' = IF senderSocketId # NoId
                     THEN Append(emitted, MessageReadEvent(senderSocketId,
                                                           reqs[s].uid, reqs[s].mid))
                     ELSE emitted
  /\ lastAck' = AckOf("mark_read", "None", reqs[s].uid, reqs[s].mid, reqs[s].n)
  /\ reqs' = [reqs EXCEPT ![s] = Idle]
  /\ UNCHANGED <<scope, authVars, exited, now, ticks, issued, callVars, msgVars, sockVars>>

\* ----------------------------------------------------------------- reads
\* The read operations are projections of the store; each is the value
\* its query returns in the current state.  Rows are returned as their
\* ids.  Where created_at ties, the order SQL leaves open is fixed here as
\* insertion order.
Min(a, b) == IF a <= b THEN a ELSE b
Range(seq) == {seq[i] : i \in DOMAIN seq}
Reverse(seq) == [i \in 1..Len(seq) |-> seq[Len(seq) + 1 - i]]
\* Math.ceil(total / limit)
Pages(total, limit) == (total + limit - 1) \div limit

Newer(x, y) ==
  \/ msgs[x].created_at > msgs[y].created_at
  \/ (msgs[x].created_at = msgs[y].created_at /\ x >= y)

\* order by created_at desc
RECURSIVE NewestFirst(_)
NewestFirst(S) ==
  IF S = {} THEN <<>>
  ELSE LET m == CHOOSE x \in S : \A y \in S : Newer(x, y)
       IN <<m>> \o NewestFirst(S \ {m})

\* limit ... offset (page - 1) * limit
PageOf(seq, page, limit) ==
  LET off == (page - 1) * limit
  IN SubSeq(seq, off + 1, Min(off + limit, Len(seq)))

\* ilike '%query%' for a query without wildcard characters
Lower(ch) ==
  CASE ch = "H" -> "h" [] ch = "I" -> "i" [] ch = "O" -> "o" [] ch = "X" -> "x"
    [] OTHER -> ch
ILike(content, query) ==
  \E i \in 1..(Len(content) - Len(query) + 1) :
    \A j \in 1..Len(query) : Lower(content[i + j - 1]) = Lower(query[j])

\* getMessageHistory: the rows of the data query and of the count query
HistoryRows(userId, otherUserId) ==
  {m \in Between(userId, otherUserId) : msgs[m].is_deleted = FALSE}
HistoryCountRows(userId, otherUserId) ==
  {m \in Between(userId, otherUserId) : msgs[m].is_deleted = FALSE}

GetMessageHistory(userId, otherUserId, page, limit) ==
  IF otherUserId \notin Users
    THEN [err |-> "NotFound", data |-> <<>>, total |-> 0, pages |-> 0]
    ELSE LET total == Cardinality(HistoryCountRows(userId, otherUserId))
         IN [err |-> "None",
             data |-> Reverse(PageOf(NewestFirst(HistoryRows(userId, otherUserId)),
                                     page, limit)),
             total |-> total, pages |-> Pages(total, limit)]

\* searchMessages: the rows of the data query and of the count query
SearchRowsAll(userId, query) ==
  {m \in DOMAIN msgs : IsMsgParty(msgs[m], userId) /\ ILike(msgs[m].content, query)}
SearchRows(userId, query) ==
  {m \in DOMAIN msgs : /\ IsMsgParty(msgs[m], userId)
                       /\ msgs[m].is_deleted = FALSE
                       /\ ILike(msgs[m].content, query)}
SearchCountRows(userId, query) ==
  {m \in DOMAIN msgs : /\ IsMsgParty(msgs[m], userId)
                       /\ msgs[m].is_deleted = FALSE
                       /\ ILike(msgs[m].content, query)}

SearchMessages(userId, query, page, limit) ==
  LET total == Cardinality(SearchCountRows(userId, query))
  IN [err |-> "None",
      data |-> PageOf(NewestFirst(SearchRows(userId, query)), page, limit),
      total |-> total, pages |-> Pages(total, limit)]

\* a slip: the is_read = false condition left out of the count
CountMessagesFor(userId) ==
  Cardinality({m \in DOMAIN msgs : /\ msgs[m].recipient_id = userId
                                   /\ msgs[m].is_deleted = FALSE})

\* getUnreadMessagesCount
GetUnreadMessagesCount(userId) ==
  Cardinality({m \in DOMAIN msgs : /\ msgs[m].recipient_id = userId
                                   /\ msgs[m].is_read = FALSE
                                   /\ msgs[m].is_deleted = FALSE})

\* getConversations: ranked_messages, its rn = 1 rows joined with the
\* active users, the unread subquery, and the count query
OtherOf(m, userId) ==
  IF msgs[m].sender_id = userId THEN msgs[m].recipient_id ELSE msgs[m].sender_id
RankedRows(userId) ==
  {m \in DOMAIN msgs : IsMsgParty(msgs[m], userId) /\ msgs[m].is_deleted = FALSE}
LatestRows(userId) ==
  {m \in RankedRows(userId) :
     /\ OtherOf(m, userId) \in Users
     /\ \A k \in RankedRows(userId) :
          OtherOf(k, userId) = OtherOf(m, userId) => Newer(m, k)}
UnreadCountFrom(userId, senderId) ==
  Cardinality({m \in DOMAIN msgs : /\ msgs[m].recipient_id = userId
                                   /\ msgs[m].is_read = FALSE
                                   /\ msgs[m].is_deleted = FALSE
                                   /\ msgs[m].sender_id = senderId})
ConversationCountRows(userId) ==
  {m \in DOMAIN msgs : IsMsgParty(msgs[m], userId) /\ msgs[m].is_deleted = FALSE}

GetConversations(userId, page, limit) ==
  LET ids   == PageOf(NewestFirst(LatestRows(userId)), page, limit)
      total == Cardinality({OtherOf(m, userId) : m \in ConversationCountRows(userId)}
                             \cap Users)
  IN [err |-> "None",
      data |-> [i \in 1..Len(ids) |->
                  [id |-> ids[i], other_user_id |-> OtherOf(ids[i], userId),
                   unread_count |-> UnreadCountFrom(userId, OtherOf(ids[i], userId))]],
      total |-> total, pages |-> Pages(total, limit)]

\* ------------------------------------------------------------ AuthService
\* A refresh token string is the number of its draw from crypto.randomBytes
\* (no two draws are equal); the row that stores it gets the same number as
\* its id.  sha256 is collision free on these strings.
HashToken(token) == <<"sha256", token>>

\* milliseconds of an expiry setting given as <<value, unit>>
ParseExpirationTime(expiresIn) ==
  LET value == expiresIn[1]
      unit  == expiresIn[2]
  IN  CASE unit = "d" -> value * 24 * 60 * 60 * 1000
        [] unit = "h" -> value * 60 * 60 * 1000
        [] unit = "m" -> value * 60 * 1000
        [] unit = "s" -> value * 1000
        [] OTHER -> 7 * 24 * 60 * 60 * 1000

NewRefreshToken(userId, token, deviceInfo) ==
  [user_id |-> userId, token_hash |-> HashToken(token),
   expires_at |-> now + ParseExpirationTime(scope.refreshExpiresIn),
   is_revoked |-> FALSE, device_info |-> deviceInfo]

\* the filter of refreshToken's first statement
Usable(row) == ~row.is_revoked /\ row.expires_at > now

\* the rows the first statement of refreshToken can return (.first())
TokenRecords(token) ==
  {id \in DOMAIN refresh_tokens :
     /\ refresh_tokens[id].token_hash = HashToken(token)
     /\ Usable(refresh_tokens[id])}

\* the strings a client can present: those handed out, and one never issued
Presentable == (1..(nextTokenId - 1)) \cup {NoId}

\* requests that will still insert a refresh token
PendingTokens == Cardinality({s \in Slots : reqs[s].op = "refreshToken"})
CanMint == nextTokenId + PendingTokens <= scope.maxTokens

\* login: the statements before generateTokens read and write `users` only,
\* which no other operation changes; generateTokens inserts one row
Login(userId, passwordOk, deviceInfo) ==
  /\ CanIssue /\ CanMint
  /\ issued' = issued + 1
  /\ IF userId \in Users /\ passwordOk
       THEN /\ refresh_tokens' =
                 (nextTokenId :> NewRefreshToken(userId, nextTokenId, deviceInfo))
                   @@ refresh_tokens
            /\ nextTokenId' = nextTokenId + 1
            /\ lastAck' = AckOf("login", "None", userId, NoId, nextTokenId)
       ELSE /\ lastAck' = AckOf("login", "Unauthorized", userId, NoId, 0)
            /\ UNCHANGED authVars
  /\ UNCHANGED <<scope, exited, now, ticks, callVars, msgVars, sockVars, emitted, reqs>>

\* refreshToken, first statement: the record of the token presented
RefreshTokenLookup(token) ==
  /\ CanIssue /\ CanSuspend /\ CanMint
  /\ issued' = issued + 1
  /\ IF TokenRecords(token) = {}
       THEN /\ lastAck' = AckOf("refreshToken", "Unauthorized", Ghost, token, 0)
            /\ UNCHANGED reqs
       ELSE /\ \E id \in TokenRecords(token) :
                 reqs' = [reqs EXCEPT ![Slot0] =
                   [op |-> "refreshToken", pc |-> "user", token |-> token,
                    rid |-> id, uid |-> refresh_tokens[id].user_id,
                    device |-> refresh_tokens[id].device_info]]
            /\ UNCHANGED lastAck
  /\ UNCHANGED <<scope, authVars, exited, now, ticks, callVars, msgVars, sockVars, emitted>>

\* second statement: the user of the record
RefreshTokenUser(s) ==
  /\ reqs[s].op = "refreshToken" /\ reqs[s].pc = "user"
  /\ CanStep(s)
  /\ IF reqs[s].uid \in Users
       THEN /\ reqs' = [reqs EXCEPT ![s].pc = "revoke"]
            /\ UNCHANGED lastAck
       ELSE /\ reqs' = [reqs EXCEPT ![s] = Idle]
            /\ lastAck' = AckOf("refreshToken", "NotFound", reqs[s].uid, reqs[s].token, 0)
  /\ UNCHANGED <<scope, authVars, exited, now, ticks, issued, callVars, msgVars, sockVars, emitted>>

\* third statement: revoke the record found
RefreshTokenRevoke(s) ==
  /\ reqs[s].op = "refreshToken" /\ reqs[s].pc = "revoke"
  /\ CanStep(s)
  /\ refresh_tokens' =
       [id \in DOMAIN refresh_tokens |->
          IF id = reqs[s].rid
            THEN [refresh_tokens[id] EXCEPT !.is_revoked = TRUE]
            ELSE refresh_tokens[id]]
  /\ reqs' = [reqs EXCEPT ![s].pc = "insert"]
  /\ UNCHANGED <<scope, exited, nextTokenId, now, ticks, issued, callVars, msgVars,
                 sockVars, emitted, lastAck>>

\* generateTokens: the successor is stored and handed to the client
RefreshTokenInsert(s) ==
  /\ reqs[s].op = "refreshToken" /\ reqs[s].pc = "insert"
  /\ CanStep(s)
  /\ refresh_tokens' =
       (nextTokenId :> NewRefreshToken(reqs[s].uid, nextTokenId, reqs[s].device))
         @@ refresh_tokens
  /\ nextTokenId' = nextTokenId + 1
  /\ reqs' = [reqs EXCEPT ![s] = Idle]
  /\ lastAck' = AckOf("refreshToken", "None", reqs[s].uid, reqs[s].token, nextTokenId)
  /\ UNCHANGED <<scope, exited, now, ticks, issued, callVars, msgVars, sockVars, emitted>>

\* logout: one statement, answered with success whatever it matched
Logout(token) ==
  /\ CanIssue
  /\ issued' = issued + 1
  /\ refresh_tokens' =
       [id \in DOMAIN refresh_tokens |->
          IF refresh_tokens[id].token_hash = HashToken(token)
            THEN [refresh_tokens[id] EXCEPT !.is_revoked = TRUE]
            ELSE refresh_tokens[id]]
  /\ lastAck' = AckOf("logout", "None", Ghost, token, 0)
  /\ UNCHANGED <<scope, exited, nextTokenId, now, ticks, callVars, msgVars, sockVars,
                 emitted, reqs>>

\* ------------------------------------------------------------------ specs
InitWith(sc) ==
  /\ scope = sc
  /\ now = 0
  /\ ticks = 0
  /\ issued = 0
  /\ calls = <<>>
  /\ nextCallId = 1
  /\ msgs = <<>>
  /\ socks = <<>>
  /\ connectedUsers = <<>>
  /\ userSocketMap = [u \in UserIds |-> NoId]
  /\ emitted = <<>>
  /\ reqs = [s \in 1..sc.maxInflight |-> Idle]
  /\ lastAck = NoAck
  /\ exited = FALSE
  /\ refresh_tokens = <<>>
  /\ nextTokenId = 1

CallActions ==
  \/ \E a \in scope.callers, b \in scope.callees, k \in scope.kinds :
       StartCallLookup(NoId, a, b, k)
  \/ \E s \in Slots : StartCallCheck(s)
  \/ \E s \in Slots : StartCallInsert(s)
  \/ \E c \in CallIds, st \in UpdateStatuses, u \in scope.actors :
       UpdateCallStatusRead(NoId, c, st, u, TRUE)
  \/ \E s \in Slots : UpdateCallStatusWrite(s)
  \/ \E c \in CallIds, u \in scope.actors, r \in scope.reasons : EndCallRead(NoId, c, u, r)
  \/ \E s \in Slots : EndCallWrite(s)
  \/ \E c \in CallIds, u \in scope.actors : DeleteCall(c, u)

\* overlapping startCall requests of three users, clock frozen
InitStart ==
  InitWith([NoScope EXCEPT !.callers = Users, !.callees = Users, !.actors = Users,
                           !.kinds = {"voice"}, !.reasons = EndReasons,
                           !.maxCalls = StartMaxCalls,
                           !.maxInflight = StartMaxInflight,
                           !.maxReqs = StartMaxReqs, !.overlap = {"startCall"}])
NextStart == CallActions
SpecStart == InitStart /\ [][NextStart]_vars

\* the calls u1 places to u2 (or to nobody), acted on by u1, u2 and the
\* outsider u3, with the clock running; status updates and endCall requests
\* may overlap
InitCall ==
  InitWith([NoScope EXCEPT !.callers = {"u1"}, !.callees = {"u2", Ghost},
                           !.actors = Users, !.kinds = {"voice"},
                           !.reasons = {"completed"},
                           !.tickSizes = TickSizes, !.maxCalls = 1,
                           !.maxInflight = CallMaxInflight,
                           !.maxTicks = CallMaxTicks, !.maxReqs = CallMaxReqs,
                           !.overlap = {"updateCallStatus", "endCall"}])
NextCall == Tick \/ CallActions
SpecCall == InitCall /\ [][NextCall]_vars

MsgActions ==
  \/ \E a \in scope.senders, b \in scope.recipients, c \in scope.contents :
       SendMessageLookup(NoId, a, b, c)
  \/ \E s \in Slots : SendMessageInsert(s)
  \/ \E m \in MsgIds, u \in scope.actors : MarkMessageAsRead(m, u)
  \/ \E a \in scope.actors, b \in scope.actors : MarkMessagesAsRead(a, b)
  \/ \E m \in MsgIds, u \in scope.actors : DeleteMessageRead(m, u)
  \/ \E s \in Slots : DeleteMessageWrite(s)
  \/ \E a \in scope.actors, b \in scope.actors : DeleteConversation(a, b)

\* the messages u1 and u2 send each other (or to nobody), read and deleted
\* by u1, u2 and the outsider u3
InitMsg ==
  InitWith([NoScope EXCEPT !.senders = {"u1", "u2"},
                           !.recipients = {"u1", "u2", Ghost},
                           !.contents = {<<"h", "i">>}, !.actors = Users,
                           !.tickSizes = {500}, !.maxMsgs = MsgMaxMsgs,
                           !.maxInflight = MsgMaxInflight,
                           !.maxTicks = MsgMaxTicks, !.maxReqs = MsgMaxReqs,
                           !.overlap = {"sendMessage", "deleteMessage"}])
NextMsg == Tick \/ MsgActions
SpecMsg == InitMsg /\ [][NextMsg]_vars

\* the messages u1 and u2 send each other and themselves, read and deleted
\* by them one request at a time, the clock frozen
InitList ==
  InitWith([NoScope EXCEPT !.senders = {"u1", "u2"}, !.recipients = {"u1", "u2"},
                           !.contents = Contents, !.actors = {"u1", "u2"},
                           !.maxMsgs = ListMaxMsgs, !.maxReqs = ListMaxReqs])
NextList == MsgActions
SpecList == InitList /\ [][NextList]_vars

\* u1 and u2 connect once each, u1 calls u2, and both add ICE candidates
\* to the call, each naming u2 as the target, their handlers overlapping
IcePeers == {"u1", "u2"}
InitIce ==
  InitWith([NoScope EXCEPT !.tokens = {Token(u, TRUE) : u \in IcePeers},
                           !.callers = {"u1"}, !.callees = {"u2"},
                           !.kinds = {"voice"}, !.peers = {"u2"},
                           !.candidates = {"a", "b"}, !.maxCalls = 1,
                           !.maxSocks = Cardinality(IcePeers),
                           !.maxInflight = IceMaxInflight,
                           !.maxReqs = IceMaxReqs,
                           !.overlap = {"webrtc_ice_candidate"}])
NextIce ==
  \/ \E t \in scope.tokens : Connect(t)
  \/ \E a \in scope.callers, b \in scope.callees, k \in scope.kinds :
       StartCallLookup(NoId, a, b, k)
  \/ \E s \in Slots : StartCallCheck(s)
  \/ \E s \in Slots : StartCallInsert(s)
  \/ \E id \in DOMAIN socks, c \in CallIds, x \in scope.candidates,
        u \in scope.peers : IceCandidateEvent(id, c, x, u)
  \/ \E s \in Slots : IceCandidateRelay(s)
SpecIce == InitIce /\ [][NextIce]_vars

SockActions ==
  \/ \E t \in scope.tokens : Connect(t)
  \/ \E id \in DOMAIN socks : Disconnect(id)
  \/ \E id \in DOMAIN socks, b \in scope.peers, c \in scope.contents :
       SendMessageEvent(id, b, c)
  \/ \E s \in Slots : SendMessageInsert(s)
  \/ \E id \in DOMAIN socks, m \in MsgIds \cup {NoId}, a \in scope.peers :
       MarkReadEvent(id, m, a)
  \/ \E s \in Slots : MarkReadNotify(s)

\* the connections of u1 and u2, each possibly more than one at a time,
\* and the messages they send and mark read over them; u3 and a client
\* without a token try to connect with credentials that do not verify
InitSock ==
  InitWith([NoScope EXCEPT !.tokens = {Token("u1", TRUE), Token("u2", TRUE),
                                       Token("u3", FALSE), NoToken},
                           !.peers = {"u1", "u2", Absent},
                           !.contents = {<<"h", "i">>},
                           !.maxSocks = SockMaxSockets, !.maxMsgs = SockMaxMsgs,
                           !.maxReqs = SockMaxReqs])
NextSock == SockActions
SpecSock == InitSock /\ [][NextSock]_vars

\* u1 and u2 connect, more than once, and disconnect; u3 and a client
\* without a token try to connect with credentials that do not verify; the
\* connected send mark_read events
ConnActions ==
  \/ \E t \in scope.tokens : Connect(t)
  \/ \E id \in DOMAIN socks : Disconnect(id)
  \/ \E id \in DOMAIN socks, m \in MsgIds \cup {NoId}, a \in scope.peers :
       MarkReadEvent(id, m, a)
  \/ \E s \in Slots : MarkReadNotify(s)
InitConn ==
  InitWith([NoScope EXCEPT !.tokens = {Token("u1", TRUE), Token("u2", TRUE),
                                       Token("u3", FALSE), NoToken},
                           !.peers = {"u1", "u3"},
                           !.maxSocks = ConnMaxSockets, !.maxReqs = ConnMaxReqs])
NextConn == ConnActions
SpecConn == InitConn /\ [][NextConn]_vars

\* u1 and u2 connect once each and stay; they send u2 and nobody messages
\* over their sockets, before and after u2 has connected, the handlers
\* overlapping, and mark them read
PushPeers == {"u1", "u2"}
PushActions ==
  \/ \E t \in scope.tokens : Connect(t)
  \/ \E id \in DOMAIN socks, b \in scope.peers, c \in scope.contents :
       SendMessageEvent(id, b, c)
  \/ \E s \in Slots : SendMessageInsert(s)
  \/ \E id \in DOMAIN socks, m \in MsgIds \cup {NoId}, a \in scope.peers :
       MarkReadEvent(id, m, a)
  \/ \E s \in Slots : MarkReadNotify(s)
InitPush ==
  InitWith([NoScope EXCEPT !.tokens = {Token(u, TRUE) : u \in PushPeers},
                           !.peers = {"u2", Ghost},
                           !.contents = {<<"h", "i">>},
                           !.maxSocks = Cardinality(PushPeers),
                           !.maxMsgs = PushMaxMsgs,
                           !.maxInflight = PushMaxInflight,
                           !.maxReqs = PushMaxReqs,
                           !.overlap = {"sendMessage"}])
NextPush == PushActions
SpecPush == InitPush /\ [][NextPush]_vars

\* u1 and u2 connect; over their sockets they start a call with each
\* other, answer it, reject it and end it, the clock running; a start_call
\* handler may be waiting in its updateCallStatus while other events are
\* handled
RingPeers == {"u1", "u2"}
RingActions ==
  \/ \E t \in scope.tokens : Connect(t)
  \/ \E id \in DOMAIN socks, b \in scope.callees, k \in scope.kinds :
       StartCallEvent(id, b, k)
  \/ \E s \in Slots : StartCallCheck(s)
  \/ \E s \in Slots : StartCallInsert(s)
  \/ \E s \in Slots : StartCallRingRead(s)
  \/ \E s \in Slots : StartCallRingWrite(s)
  \/ \E id \in DOMAIN socks, c \in CallIds, st \in {"answered", "rejected"} :
       CallStatusRequest(id, c, st)
  \/ \E s \in Slots : UpdateCallStatusWrite(s)
  \/ \E id \in DOMAIN socks, c \in CallIds, r \in scope.reasons :
       EndCallEvent(id, c, r)
  \/ \E s \in Slots : EndCallWrite(s)
InitRing ==
  InitWith([NoScope EXCEPT !.tokens = {Token(u, TRUE) : u \in RingPeers},
                           !.callees = RingPeers, !.kinds = {"voice"},
                           !.reasons = {"completed"},
                           !.tickSizes = {42000},
                           !.maxCalls = 1,
                           !.maxSocks = Cardinality(RingPeers),
                           !.maxInflight = RingMaxInflight,
                           !.maxTicks = RingMaxTicks,
                           !.maxReqs = RingMaxReqs,
                           !.overlap = {"start_call"}])
NextRing == Tick \/ RingActions
SpecRing == InitRing /\ [][NextRing]_vars

\* u1, u2 and u3 connect; u1 and u3 (and u2 itself) emit start_call for
\* u2, the handlers overlapping
DialPeers == {"u1", "u2", "u3"}
DialActions ==
  \/ \E t \in scope.tokens : Connect(t)
  \/ \E id \in DOMAIN socks, b \in scope.callees, k \in scope.kinds :
       StartCallEvent(id, b, k)
  \/ \E s \in Slots : StartCallCheck(s)
  \/ \E s \in Slots : StartCallInsert(s)
  \/ \E s \in Slots : StartCallRingRead(s)
  \/ \E s \in Slots : StartCallRingWrite(s)
InitDial ==
  InitWith([NoScope EXCEPT !.tokens = {Token(u, TRUE) : u \in DialPeers},
                           !.callees = {"u2"}, !.kinds = {"voice"},
                           !.maxCalls = DialMaxCalls,
                           !.maxSocks = Cardinality(DialPeers),
                           !.maxInflight = DialMaxInflight,
                           !.maxReqs = DialMaxReqs,
                           !.overlap = {"startCall", "start_call"}])
NextDial == DialActions
SpecDial == InitDial /\ [][NextDial]_vars

\* u1 and u2 connect; u1 starts a call with u2 and the connected send
\* offers, answers and ICE candidates for it, to u2 or to nobody, the
\* handlers overlapping
SignalPeers == {"u1", "u2"}
SignalKinds == {"webrtc_offer", "webrtc_answer", "webrtc_ice_candidate"}
SignalActions ==
  \/ \E t \in scope.tokens : Connect(t)
  \/ \E a \in scope.callers, b \in scope.callees, k \in scope.kinds :
       StartCallLookup(NoId, a, b, k)
  \/ \E s \in Slots : StartCallCheck(s)
  \/ \E s \in Slots : StartCallInsert(s)
  \/ \E id \in DOMAIN socks, c \in CallIds, x \in scope.candidates,
        u \in scope.peers : WebrtcOfferEvent(id, c, x, u)
  \/ \E s \in Slots : WebrtcOfferRelay(s)
  \/ \E id \in DOMAIN socks, c \in CallIds, x \in scope.candidates,
        u \in scope.peers : WebrtcAnswerEvent(id, c, x, u)
  \/ \E s \in Slots : WebrtcAnswerReject(s)
  \/ \E id \in DOMAIN socks, c \in CallIds, x \in scope.candidates,
        u \in scope.peers : IceCandidateEvent(id, c, x, u)
  \/ \E s \in Slots : IceCandidateRelay(s)
InitSignal ==
  InitWith([NoScope EXCEPT !.tokens = {Token(u, TRUE) : u \in SignalPeers},
                           !.callers = {"u1"}, !.callees = {"u2"},
                           !.kinds = {"voice"}, !.peers = {"u2", Absent},
                           !.candidates = {"a"}, !.maxCalls = 1,
                           !.maxSocks = Cardinality(SignalPeers),
                           !.maxInflight = SignalMaxInflight,
                           !.maxReqs = SignalMaxReqs,
                           !.overlap = SignalKinds])
NextSignal == SignalActions
SpecSignal == InitSignal /\ [][NextSignal]_vars

\* u1 and u2 connect and disconnect; they send u2 messages over their
\* sockets, and a connection may close while its sends wait for the store
DropPeers == {"u1", "u2"}
DropActions ==
  \/ \E t \in scope.tokens : Connect(t)
  \/ \E id \in DOMAIN socks : Disconnect(id)
  \/ \E id \in DOMAIN socks, b \in scope.peers, c \in scope.contents :
       SendMessageEvent(id, b, c)
  \/ \E s \in Slots : SendMessageInsert(s)
InitDrop ==
  InitWith([NoScope EXCEPT !.tokens = {Token(u, TRUE) : u \in DropPeers},
                           !.peers = {"u2"},
                           !.contents = {<<"h", "i">>},
                           !.maxSocks = Cardinality(DropPeers),
                           !.maxMsgs = DropMaxMsgs,
                           !.maxInflight = DropMaxInflight,
                           !.maxReqs = DropMaxReqs,
                           !.overlap = {"sendMessage"}])
NextDrop == DropActions
SpecDrop == InitDrop /\ [][NextDrop]_vars

\* u1 and u2 connect and disconnect and tell u2, or nobody, that they are
\* typing; meanwhile u1 may send u2 a message and start a call with u2
\* through the controllers
TypingPeers == {"u1", "u2"}
TypingActions ==
  \/ \E t \in scope.tokens : Connect(t)
  \/ \E id \in DOMAIN socks : Disconnect(id)
  \/ \E id \in DOMAIN socks, b \in scope.peers, t \in BOOLEAN :
       TypingEvent(id, b, t)
  \/ \E a \in scope.senders, b \in scope.recipients, c \in scope.contents :
       SendMessageLookup(NoId, a, b, c)
  \/ \E s \in Slots : SendMessageInsert(s)
  \/ \E a \in scope.callers, b \in scope.callees, k \in scope.kinds :
       StartCallLookup(NoId, a, b, k)
  \/ \E s \in Slots : StartCallCheck(s)
  \/ \E s \in Slots : StartCallInsert(s)
InitTyping ==
  InitWith([NoScope EXCEPT !.tokens = {Token(u, TRUE) : u \in TypingPeers},
                           !.peers = {"u2", Absent},
                           !.senders = {"u1"}, !.recipients = {"u2"},
                           !.contents = {<<"h", "i">>},
                           !.callers = {"u1"}, !.callees = {"u2"},
                           !.kinds = {"voice"},
                           !.maxCalls = 1, !.maxMsgs = 1,
                           !.maxSocks = Cardinality(TypingPeers),
                           !.maxReqs = TypingMaxReqs])
NextTyping == TypingActions
SpecTyping == InitTyping /\ [][NextTyping]_vars

\* ---------------------------------------------------------------------
\* SpecAuth: u1 logs in, exchanges refresh tokens and logs out; the tokens
\* live for an hour and the clock may jump by that much
AuthDevices == {"phone"}
AuthActions ==
  \/ \E u \in scope.actors, ok \in BOOLEAN, d \in AuthDevices : Login(u, ok, d)
  \/ \E t \in Presentable : RefreshTokenLookup(t)
  \/ \E s \in Slots : RefreshTokenUser(s)
  \/ \E s \in Slots : RefreshTokenRevoke(s)
  \/ \E s \in Slots : RefreshTokenInsert(s)
  \/ \E t \in Presentable : Logout(t)
InitAuth ==
  InitWith([NoScope EXCEPT !.actors = {"u1"},
                           !.refreshExpiresIn = <<1, "h">>,
                           !.tickSizes = {3600000},
                           !.overlap = {"refreshToken"},
                           !.maxTokens = AuthMaxTokens,
                           !.maxInflight = AuthMaxInflight,
                           !.maxTicks = AuthMaxTicks,
                           !.maxReqs = AuthMaxReqs])
NextAuth == Tick \/ AuthActions
SpecAuth == InitAuth /\ [][NextAuth]_vars

\* ---------------------------------------------------------------------
\* SpecHangup: u1 and u2 connect, u1 calls u2, and both emit end_call for
\* the call; the end_call handlers may overlap and the clock runs
HangupPeers == {"u1", "u2"}
HangupActions ==
  \/ \E t \in scope.tokens : Connect(t)
  \/ \E a \in scope.callers, b \in scope.callees, k \in scope.kinds :
       StartCallLookup(NoId, a, b, k)
  \/ \E s \in Slots : StartCallCheck(s)
  \/ \E s \in Slots : StartCallInsert(s)
  \/ \E id \in DOMAIN socks, c \in CallIds, r \in scope.reasons :
       EndCallEvent(id, c, r)
  \/ \E s \in Slots : EndCallWrite(s)
InitHangup ==
  InitWith([NoScope EXCEPT !.tokens = {Token(u, TRUE) : u \in HangupPeers},
                           !.callers = {"u1"}, !.callees = {"u2"},
                           !.kinds = {"voice"}, !.reasons = EndReasons,
                           !.tickSizes = {42000},
                           !.maxCalls = 1,
                           !.maxSocks = Cardinality(HangupPeers),
                           !.maxInflight = HangupMaxInflight,
                           !.maxTicks = HangupMaxTicks,
                           !.maxReqs = HangupMaxReqs,
                           !.overlap = {"endCall"}])
NextHangup == Tick \/ HangupActions
SpecHangup == InitHangup /\ [][NextHangup]_vars

\* ---------------------------------------------------------------------
\* SpecIntrude: u1 calls u2; u2 and the outsider u3 connect and emit
\* signaling events that name the call
IntrudePeers == {"u2", "u3"}
InitIntrude ==
  InitWith([NoScope EXCEPT !.tokens = {Token(u, TRUE) : u \in IntrudePeers},
                           !.callers = {"u1"}, !.callees = {"u2"},
                           !.kinds = {"voice"}, !.peers = {"u2", Absent},
                           !.candidates = {"a"}, !.maxCalls = 1,
                           !.maxSocks = Cardinality(IntrudePeers),
                           !.maxInflight = IntrudeMaxInflight,
                           !.maxReqs = IntrudeMaxReqs,
                           !.overlap = SignalKinds])
NextIntrude == SignalActions
SpecIntrude == InitIntrude /\ [][NextIntrude]_vars

\* ---------------------------------------------------------------------
\* SpecFlags: u1 sends messages to u2; u1, u2 and the outsider u3 mark them
\* read and delete them, sends and deletes overlapping, the clock frozen
InitFlags ==
  InitWith([NoScope EXCEPT !.senders = {"u1"}, !.recipients = {"u2"},
                           !.contents = {<<"h", "i">>}, !.actors = Users,
                           !.maxMsgs = FlagsMaxMsgs, !.maxInflight = 2,
                           !.maxReqs = FlagsMaxReqs,
                           !.overlap = {"sendMessage", "deleteMessage"}])
NextFlags == MsgActions
SpecFlags == InitFlags /\ [][NextFlags]_vars

\* ============================================================ properties
\* the request in slot s completes in this step
Completes(s, op) == reqs[s].op = op /\ reqs'[s].op = "idle"
\* a request of operation op gets past its first statement in this step
Proceeds(s, op) == reqs[s].op = "idle" /\ reqs'[s].op = op

\* C1: in every reachable state every user is caller or callee of at most
\* one call whose status is initiated, ringing or answered.
C1_OneActiveCallPerUser ==
  \A u \in Users : Cardinality(ActiveCallIdsOf(u)) <= 1

\* C2: an updateCallStatus on a call whose status is ended, missed or
\* rejected fails with InvalidState: it never gets past its tests on such a
\* row, and it never changes such a row.
C2_TerminalAbsorbing ==
  [][\A s \in Slots :
       /\ Proceeds(s, "updateCallStatus")
            => calls[reqs'[s].cid].status \notin TerminalStatuses
       /\ (/\ Completes(s, "updateCallStatus")
           /\ reqs[s].cid \in DOMAIN calls
           /\ calls[reqs[s].cid].status \in TerminalStatuses)
            => (lastAck'.err = "InvalidState" /\ calls' = calls)]_vars

\* C3: a connection of U registers its handle as lookup(U); the disconnect
\* of a handle that is not the one registered for U leaves lookup(U) as it
\* was and U online, and the disconnect of the registered one removes it.
C3_StaleDisconnectKeepsMapping ==
  [][/\ Len(socks') > Len(socks)
          => userSocketMap'[socks'[Len(socks')].userId] = Len(socks')
     /\ \A id \in OpenSockets :
          ~socks'[id].open
            => LET u == socks[id].userId
               IN IF userSocketMap[u] = id
                    THEN userSocketMap'[u] = NoId
                    ELSE /\ userSocketMap'[u] = userSocketMap[u]
                         /\ userSocketMap'[u] # NoId]_vars

\* the legal-transition table: initiated -> ringing -> answered -> ended,
\* missed and rejected from initiated or ringing
LegalTargets(st) ==
  CASE st = "initiated" -> {"ringing", "missed", "rejected"}
    [] st = "ringing"   -> {"answered", "missed", "rejected"}
    [] st = "answered"  -> {"ended"}
    [] OTHER            -> {}

\* C6: whatever mark_read events the recipient of a message sends for it,
\* the sender of the message is pushed at most one message_read for it.
C6_AtMostOneReadReceipt ==
  \A m \in DOMAIN msgs :
    Cardinality({i \in DOMAIN emitted :
                   /\ emitted[i].event = "message_read"
                   /\ emitted[i].messageId = m
                   /\ emitted[i].readBy = msgs[m].recipient_id
                   /\ socks[emitted[i].to].userId = msgs[m].sender_id}) <= 1

\* C7: an updateCallStatus whose target is not a one-step successor of the
\* call's current status fails with InvalidState: it never gets past its
\* tests with such a target, and it never changes the row to such a target.
C7_OnlyLegalTransitions ==
  [][\A s \in Slots :
       /\ Proceeds(s, "updateCallStatus")
            => reqs'[s].status \in LegalTargets(calls[reqs'[s].cid].status)
       /\ (/\ Completes(s, "updateCallStatus")
           /\ reqs[s].cid \in DOMAIN calls
           /\ reqs[s].status \notin LegalTargets(calls[reqs[s].cid].status))
            => (lastAck'.err = "InvalidState" /\ calls' = calls)]_vars

\* C8: endCall fails with InvalidState on a call whose status is ended,
\* missed or rejected: it never goes on to its update for such a row.
C8_EndCallRejectsTerminal ==
  [][\A s \in Slots :
       Proceeds(s, "endCall")
       => calls[reqs'[s].cid].status \notin TerminalStatuses]_vars

\* C9: when updateCallStatus moves a call to ended, missed or rejected,
\* ended_at is set and duration_seconds is the whole seconds from
\* answered_at to ended_at, and exactly 0 when the call was never answered.
C9_TerminalSetsDuration ==
  [][\A s \in Slots :
       (/\ Completes(s, "updateCallStatus")
        /\ reqs[s].cid \in DOMAIN calls
        /\ reqs[s].status \in TerminalStatuses)
       => LET old == calls[reqs[s].cid]
              new == calls'[reqs[s].cid]
          IN /\ new.ended_at = now
             /\ IF old.answered_at = Null
                  THEN new.duration_seconds = 0
                  ELSE /\ new.duration_seconds * MsPerSecond
                            <= new.ended_at - old.answered_at
                       /\ new.ended_at - old.answered_at
                            < (new.duration_seconds + 1) * MsPerSecond]_vars

\* C10: endCall stores the whole seconds elapsed between the answered_at it
\* read and ended_at, rounded down (42 for 42 s), and 0 for a call it read
\* as never answered; no stored duration is negative.
C10_EndCallDuration ==
  /\ [](\A c \in DOMAIN calls :
          calls[c].duration_seconds = Null \/ calls[c].duration_seconds >= 0)
  /\ [][\A s \in Slots :
          (Completes(s, "endCall") /\ reqs[s].cid \in DOMAIN calls)
          => LET new == calls'[reqs[s].cid]
                 t0  == reqs[s].answeredAt
             IN /\ new.status = "ended"
                /\ new.ended_at = now
                /\ IF t0 = Null
                     THEN new.duration_seconds = 0
                     ELSE /\ new.duration_seconds * MsPerSecond <= new.ended_at - t0
                          /\ new.ended_at - t0 < (new.duration_seconds + 1) * MsPerSecond
                          /\ (new.ended_at - t0 = 42 * MsPerSecond
                                => new.duration_seconds = 42)]_vars

\* an answered call ended by endCall 42 s after it was answered
C10_Witness ==
  /\ lastAck = Ack("endCall", "None")
  /\ \E c \in DOMAIN calls :
       /\ calls[c].status = "ended"
       /\ calls[c].end_reason # NoReason
       /\ calls[c].answered_at # Null
       /\ calls[c].ended_at = calls[c].answered_at + 42 * MsPerSecond
       /\ calls[c].duration_seconds = 42

Limits   == 1..MaxLimit
PageNos  == {1, 2}
DeletedIds == {m \in DOMAIN msgs : msgs[m].is_deleted}

\* C4: a message with is_deleted = true is in no page of getMessageHistory,
\* searchMessages or getConversations of any user, and is left out of their
\* totals and of the unread counts.
C4_DeletedNeverListed ==
  \A u \in Users :
    /\ GetUnreadMessagesCount(u)
         = Cardinality({m \in DOMAIN msgs \ DeletedIds :
                          msgs[m].recipient_id = u /\ ~msgs[m].is_read})
    /\ \A p \in PageNos, l \in Limits :
         /\ \A o \in Users :
              LET h == GetMessageHistory(u, o, p, l)
              IN /\ Range(h.data) \cap DeletedIds = {}
                 /\ h.total = Cardinality(Between(u, o))
                                - Cardinality(Between(u, o) \cap DeletedIds)
         /\ \A q \in Queries :
              LET r == SearchMessages(u, q, p, l)
              IN /\ Range(r.data) \cap DeletedIds = {}
                 /\ r.total = Cardinality(SearchRowsAll(u, q))
                                - Cardinality(SearchRowsAll(u, q) \cap DeletedIds)
         /\ LET c == GetConversations(u, p, l)
            IN /\ \A i \in DOMAIN c.data :
                    /\ c.data[i].id \notin DeletedIds
                    /\ c.data[i].unread_count
                         = Cardinality({m \in DOMAIN msgs \ DeletedIds :
                                          /\ msgs[m].recipient_id = u
                                          /\ msgs[m].sender_id = c.data[i].other_user_id
                                          /\ ~msgs[m].is_read})
               /\ c.total = Cardinality({o \in Users :
                                           Between(u, o) \ DeletedIds # {}})

\* u1 and u2 have a deleted and a live message, both matching the search
\* for "h", and every listing shows exactly the live one
C4_Witness ==
  \E m, k \in DOMAIN msgs :
    /\ m \in Between("u1", "u2") /\ msgs[m].is_deleted
    /\ k \in Between("u1", "u2") /\ ~msgs[k].is_deleted
    /\ GetMessageHistory("u1", "u2", 1, MaxLimit).data = <<k>>
    /\ SearchRowsAll("u2", <<"h">>) = {m, k}
    /\ SearchMessages("u2", <<"h">>, 1, MaxLimit).data = <<k>>
    /\ GetConversations("u1", 1, MaxLimit).data[1].id = k

\* C5: marking never fails, and no step changes is_read or read_at of a
\* message that is already read: read_at keeps the time of the first mark.
C5_MarkReadIdempotent ==
  [][/\ lastAck'.op \in {"markMessageAsRead", "markMessagesAsRead"}
          => lastAck'.err = "None"
     /\ \A m \in DOMAIN msgs :
          msgs[m].is_read
            => (msgs'[m].is_read /\ msgs'[m].read_at = msgs[m].read_at)]_vars

\* the recipient has marked a message again, later than its read_at
C5_Witness ==
  /\ lastAck.op = "markMessageAsRead" /\ lastAck.err = "None" /\ lastAck.n = 0
  /\ lastAck.id \in DOMAIN msgs
  /\ msgs[lastAck.id].recipient_id = lastAck.uid
  /\ msgs[lastAck.id].is_read
  /\ msgs[lastAck.id].read_at < now

\* C11: startCall creates a record, initiated and with started_at = now,
\* exactly when the callee is an active user, differs from the caller and
\* neither of them is party to a non-terminal call; a startCall that fails
\* with Conflict had such a call before it, and a failing one changes no
\* record.
C11_StartCreatesIff ==
  [][\A s \in Slots :
       /\ Proceeds(s, "startCall")
            => (reqs'[s].callee \in Users /\ reqs'[s].uid # reqs'[s].callee)
       /\ (Completes(s, "startCall") /\ lastAck'.err = "Conflict")
            => (HasActiveCallFor(reqs[s].uid, reqs[s].callee) /\ calls' = calls)
       /\ (Completes(s, "startCall") /\ lastAck'.err = "None")
            => /\ ~HasActiveCallFor(reqs[s].uid, reqs[s].callee)
               /\ DOMAIN calls' = DOMAIN calls \cup {nextCallId}
               /\ \A id \in DOMAIN calls : calls'[id] = calls[id]
               /\ calls'[nextCallId].status = "initiated"
               /\ calls'[nextCallId].started_at = now
               /\ calls'[nextCallId].caller_id = reqs[s].uid
               /\ calls'[nextCallId].callee_id = reqs[s].callee]_vars

\* C12: updateCallStatus fails with NotFound exactly when the id names no
\* record, and with Forbidden exactly when the acting user is neither the
\* caller nor the callee; endCall fails with NotFound in both cases; a
\* failing request changes no record, and no request of a user who is not a
\* party to a call gets as far as changing it.
C12_NotFoundForbidden ==
  [][/\ (lastAck' # lastAck /\ lastAck'.op \in {"updateCallStatus", "endCall"}
           /\ lastAck'.err \in {"NotFound", "Forbidden"})
          => /\ calls' = calls
             /\ lastAck'.err = "Forbidden"
                  => /\ lastAck'.id \in DOMAIN calls
                     /\ lastAck'.uid # calls[lastAck'.id].caller_id
                     /\ lastAck'.uid # calls[lastAck'.id].callee_id
             /\ (lastAck'.op = "updateCallStatus" /\ lastAck'.err = "NotFound")
                  => lastAck'.id \notin DOMAIN calls
             /\ (lastAck'.op = "endCall" /\ lastAck'.err = "NotFound")
                  => \/ lastAck'.id \notin DOMAIN calls
                     \/ /\ lastAck'.uid # calls[lastAck'.id].caller_id
                        /\ lastAck'.uid # calls[lastAck'.id].callee_id
     /\ \A s \in Slots :
          /\ (Proceeds(s, "updateCallStatus") \/ Proceeds(s, "endCall"))
               => /\ reqs'[s].cid \in DOMAIN calls
                  /\ reqs'[s].uid \in {calls[reqs'[s].cid].caller_id,
                                       calls[reqs'[s].cid].callee_id}
          /\ (Completes(s, "updateCallStatus") \/ Completes(s, "endCall"))
               => \A id \in DOMAIN calls :
                    calls'[id] # calls[id]
                      => (id = reqs[s].cid
                          /\ reqs[s].uid \in {calls[id].caller_id, calls[id].callee_id})]_vars

\* the outsider u3 has just been refused a status update of a call of u1
\* and u2 that is still as it was
C12_Witness ==
  /\ lastAck.op = "updateCallStatus" /\ lastAck.err = "Forbidden"
  /\ lastAck.uid = "u3"
  /\ lastAck.id \in DOMAIN calls
  /\ calls[lastAck.id].caller_id = "u1" /\ calls[lastAck.id].callee_id = "u2"
  /\ calls[lastAck.id].status = "initiated"

\* C13: a step changes the ice_candidates of a call only by appending the
\* one candidate of a webrtc_ice_candidate event handled in that step: what
\* was stored stays, in its order, and the sequence grows by one.
C13_IceCandidatesAccumulate ==
  [][\A c \in DOMAIN calls :
       /\ c \in DOMAIN calls'
       /\ \/ IceCandidatesOf(calls'[c].metadata) = IceCandidatesOf(calls[c].metadata)
          \/ \E s \in Slots :
               /\ Proceeds(s, "webrtc_ice_candidate")
               /\ reqs'[s].cid = c
               /\ IceCandidatesOf(calls'[c].metadata)
                    = Append(IceCandidatesOf(calls[c].metadata), reqs'[s].candidate)
       /\ \A s \in Slots :
            (Proceeds(s, "webrtc_ice_candidate") /\ reqs'[s].cid = c)
              => Len(IceCandidatesOf(calls'[c].metadata))
                   = Len(IceCandidatesOf(calls[c].metadata)) + 1]_vars

\* three candidates, one of them twice, added by both peers, the last while
\* the handler of the one before was still running
C13_Witness ==
  /\ 1 \in DOMAIN calls
  /\ IceCandidatesOf(calls[1].metadata) = <<"a", "b", "a">>
  /\ \E s, t \in Slots :
       /\ s # t
       /\ reqs[s].op = "webrtc_ice_candidate" /\ reqs[s].uid = "u1"
       /\ reqs[t].op = "webrtc_ice_candidate" /\ reqs[t].uid = "u2"

\* the users for whom only credentials that fail verification are presented
Refused == {t.sub : t \in {x \in scope.tokens : ~x.ok}}
             \ {t.sub : t \in {x \in scope.tokens : x.ok}}

\* C14: a connection whose credential is missing or fails verification
\* never becomes a socket, is never in connectedUsers or userSocketMap,
\* causes no user_status broadcast, and no event is handled for it: nothing
\* is stored, pushed or answered in its user's name.
C14_RefusedHandshake ==
  \A u \in Refused :
    /\ \A id \in DOMAIN socks : socks[id].userId # u
    /\ \A id \in DOMAIN connectedUsers : connectedUsers[id].userId # u
    /\ userSocketMap[u] = NoId
    /\ \A i \in DOMAIN emitted :
         /\ emitted[i].event = "user_status" => emitted[i].userId # u
         /\ emitted[i].event = "message_read" => emitted[i].readBy # u
    /\ \A m \in DOMAIN msgs : msgs[m].sender_id # u
    /\ \A s \in Slots : reqs[s].op # "idle" => reqs[s].uid # u
    /\ (u # Ghost /\ lastAck.op \notin {"none", "connect"}) => lastAck.uid # u

\* a handshake has just been refused while u1 is connected and has had
\* an event handled, and nothing but the broadcast for u1 and the push of
\* its event has been emitted
C14_Witness ==
  /\ lastAck = Ack("connect", "Unauthorized")
  /\ "u3" \in Refused
  /\ Len(socks) = 1 /\ socks[1].userId = "u1"
  /\ Len(emitted) = 2
  /\ emitted[1] = StatusEvent("u1", TRUE)
  /\ emitted[2].event = "message_read" /\ emitted[2].readBy = "u1"

\* C15: the disconnect of a connection takes it out of connectedUsers,
\* leaves userSocketMap not pointing at it and broadcasts user_status with
\* isOnline = false for its user; and at no time does userSocketMap or
\* connectedUsers hold a connection that has closed.
C15_DisconnectUnregisters ==
  /\ [](/\ \A u \in UserIds :
             userSocketMap[u] # NoId
               => (userSocketMap[u] \in OpenSockets
                   /\ socks[userSocketMap[u]].userId = u)
        /\ DOMAIN connectedUsers \subseteq OpenSockets)
  /\ [][\A id \in OpenSockets :
          ~socks'[id].open
            => /\ id \notin DOMAIN connectedUsers'
               /\ userSocketMap'[socks[id].userId] # id
               /\ emitted' = Append(emitted, StatusEvent(socks[id].userId, FALSE))]_vars

\* u2's only connection has closed while u1 stays connected: u2 is in
\* neither Map and the last broadcast says that u2 is offline
C15_Witness ==
  /\ \E id \in DOMAIN socks : socks[id].userId = "u2" /\ ~socks[id].open
  /\ \A id \in OpenSockets : socks[id].userId = "u1"
  /\ OpenSockets # {}
  /\ userSocketMap["u2"] = NoId /\ userSocketMap["u1"] # NoId
  /\ emitted # <<>> /\ emitted[Len(emitted)] = StatusEvent("u2", FALSE)

\* C16: connectedUsers, which getConnectedUsers returns, holds at most one
\* connection per user, and it is the one userSocketMap has for that user.
C16_OneHandlePerUser ==
  \A id \in DOMAIN connectedUsers :
    /\ userSocketMap[connectedUsers[id].userId] = id
    /\ \A other \in DOMAIN connectedUsers :
         connectedUsers[other].userId = connectedUsers[id].userId => other = id

\* C17: a new_message is pushed only for a message that is stored, in the
\* step that stores it; every stored message has a recipient that is an
\* active user; a send that fails with NotFound stores nothing and pushes
\* nothing.
C17_PersistBeforePush ==
  /\ [](/\ \A i \in DOMAIN emitted :
             emitted[i].event = "new_message"
               => (emitted[i].id \in DOMAIN msgs
                   /\ emitted[i].content = msgs[emitted[i].id].content)
        /\ \A m \in DOMAIN msgs : msgs[m].recipient_id \in Users)
  /\ [][/\ (lastAck' # lastAck /\ lastAck'.op = "sendMessage"
              /\ lastAck'.err = "NotFound")
             => (msgs' = msgs /\ emitted' = emitted)
        /\ \A i \in DOMAIN emitted' \ DOMAIN emitted :
             emitted'[i].event = "new_message"
               => (emitted'[i].id \in DOMAIN msgs' \ DOMAIN msgs)]_vars

\* a send to nobody has just failed, after a send that was stored and
\* pushed to the connected recipient
C17_Witness ==
  /\ lastAck = Ack("sendMessage", "NotFound")
  /\ Len(msgs) = 1
  /\ \E i \in DOMAIN emitted :
       /\ emitted[i].event = "new_message" /\ emitted[i].id = 1
       /\ emitted[i].live
       /\ \A j \in DOMAIN emitted : emitted[j].event = "new_message" => j = i

\* C18: the messages one sender sends over one socket are stored in the
\* order the send_message events arrived: when a send stores its message, no
\* earlier send of the same socket is still waiting to store its own.
C18_SingleSenderOrder ==
  [][\A s \in Slots :
       (Completes(s, "sendMessage") /\ Len(msgs') = Len(msgs) + 1
          /\ reqs[s].sock # NoId)
         => \A t \in Slots :
              (reqs[t].op = "sendMessage" /\ reqs[t].sock = reqs[s].sock)
                => reqs[t].seq >= reqs[s].seq]_vars

\* C19: a message sent over a socket to a user whose connection is
\* registered is pushed exactly once, as one new_message with its content, to
\* that connection, and raises the recipient's unread count by one; the count
\* rises only so, and falls only when the recipient marks messages read, by
\* the number marked: one for an unread message of theirs.
C19_PushedOnceCountedOnce ==
  /\ [](\A i, j \in DOMAIN emitted :
          (emitted[i].event = "new_message" /\ emitted[j].event = "new_message"
             /\ emitted[i].id = emitted[j].id) => i = j)
  /\ [][/\ \A s \in Slots, u \in UserIds :
             (Completes(s, "sendMessage") /\ Len(msgs') = Len(msgs) + 1
                /\ reqs[s].sock # NoId /\ reqs[s].recipient = u
                /\ userSocketMap[u] # NoId)
               => /\ emitted' = Append(emitted,
                        [to |-> userSocketMap[u], live |-> TRUE,
                         event |-> "new_message", id |-> Len(msgs'),
                         content |-> reqs[s].content])
                  /\ GetUnreadMessagesCount(u)' = GetUnreadMessagesCount(u) + 1
        /\ \A u \in UserIds :
             /\ GetUnreadMessagesCount(u)' > GetUnreadMessagesCount(u)
                  => \E s \in Slots : /\ Completes(s, "sendMessage")
                                      /\ reqs[s].recipient = u
             /\ GetUnreadMessagesCount(u)' < GetUnreadMessagesCount(u)
                  => \E s \in Slots :
                       /\ Proceeds(s, "mark_read") /\ reqs'[s].uid = u
                       /\ GetUnreadMessagesCount(u)'
                            = GetUnreadMessagesCount(u) - reqs'[s].n
        /\ \A s \in Slots, m \in DOMAIN msgs, u \in UserIds :
             (Proceeds(s, "mark_read") /\ reqs'[s].mid = m /\ reqs'[s].uid = u
                /\ msgs[m].recipient_id = u /\ ~msgs[m].is_read)
               => GetUnreadMessagesCount(u)' = GetUnreadMessagesCount(u) - 1]_vars

\* u1's message reached u2's connection once, and u2 has marked it read:
\* the unread count is back to 0
C19_Witness ==
  /\ Len(msgs) = 1
  /\ msgs[1].sender_id = "u1" /\ msgs[1].recipient_id = "u2"
  /\ msgs[1].is_read
  /\ userSocketMap["u2"] # NoId
  /\ \E i \in DOMAIN emitted :
       /\ emitted[i] = [to |-> userSocketMap["u2"], live |-> TRUE,
                        event |-> "new_message", id |-> 1,
                        content |-> msgs[1].content]
       /\ \A j \in DOMAIN emitted : emitted[j].event = "new_message" => j = i
  /\ GetUnreadMessagesCount("u2") = 0

\* C20: is_read and read_at of a message change only in a mark-read made
\* by the message's recipient: markMessageAsRead of that message, or
\* markMessagesAsRead by the user it is addressed to.
C20_OnlyRecipientMarksRead ==
  [][\A m \in DOMAIN msgs :
       (msgs'[m].is_read # msgs[m].is_read \/ msgs'[m].read_at # msgs[m].read_at)
         => /\ lastAck'.op \in {"markMessageAsRead", "markMessagesAsRead"}
            /\ lastAck'.err = "None"
            /\ lastAck'.uid = msgs[m].recipient_id
            /\ lastAck'.n >= 1
            /\ lastAck'.op = "markMessageAsRead" => lastAck'.id = m
            /\ msgs[m].is_read = FALSE /\ msgs'[m].is_read = TRUE]_vars

\* someone who is not the recipient has just tried to mark an unread
\* message read, and it is still unread
C20_Witness ==
  \E m \in DOMAIN msgs :
    /\ lastAck.op = "markMessageAsRead" /\ lastAck.id = m
    /\ lastAck.uid \in Users \ {msgs[m].recipient_id}
    /\ lastAck.n = 0
    /\ msgs[m].is_read = FALSE /\ msgs[m].read_at = Null

\* C21: when a mark_read naming a message has marked it read and the sender
\* stored on the message is registered, message_read is pushed to that
\* sender's connection, whatever senderId the payload carried.
C21_ReceiptToStoredSender ==
  [][\A s \in Slots :
       (Completes(s, "mark_read") /\ reqs[s].mid \in DOMAIN msgs
          /\ reqs[s].n >= 1
          /\ userSocketMap[msgs[reqs[s].mid].sender_id] # NoId)
         => emitted' = Append(emitted,
                              MessageReadEvent(userSocketMap[msgs[reqs[s].mid].sender_id],
                                               reqs[s].uid, reqs[s].mid))]_vars

\* C22: deleteMessage goes on to its update only for a user who is the
\* sender or the recipient of the message, and then sets is_deleted on that
\* row alone; for anyone else it fails and changes nothing; is_deleted is
\* set by nothing but deleteMessage and a deleteConversation of one of the
\* message's two users; and no row of messages is ever removed or rewritten.
C22_SoftDeleteByPartyOnly ==
  [][/\ DOMAIN msgs \subseteq DOMAIN msgs'
     /\ \A m \in DOMAIN msgs :
          /\ msgs'[m].sender_id = msgs[m].sender_id
          /\ msgs'[m].recipient_id = msgs[m].recipient_id
          /\ msgs'[m].content = msgs[m].content
          /\ msgs'[m].created_at = msgs[m].created_at
          /\ msgs'[m].is_deleted # msgs[m].is_deleted
               => \/ \E s \in Slots : /\ Completes(s, "deleteMessage")
                                      /\ reqs[s].mid = m
                  \/ /\ lastAck'.op = "deleteConversation"
                     /\ lastAck'.uid \in {msgs[m].sender_id, msgs[m].recipient_id}
     /\ \A s \in Slots :
          /\ Proceeds(s, "deleteMessage")
               => /\ reqs'[s].mid \in DOMAIN msgs
                  /\ reqs'[s].uid \in {msgs[reqs'[s].mid].sender_id,
                                       msgs[reqs'[s].mid].recipient_id}
          /\ Completes(s, "deleteMessage")
               => /\ msgs'[reqs[s].mid].is_deleted
                  /\ \A m \in DOMAIN msgs \ {reqs[s].mid} : msgs'[m] = msgs[m]
     /\ (lastAck' # lastAck /\ lastAck'.op = "deleteMessage"
           /\ lastAck'.err = "NotFound")
          => (msgs' = msgs /\ reqs' = reqs)]_vars

\* one of its two users has deleted a message, and the deleteMessage of an
\* outsider for the same message has just failed
C22_Witness ==
  \E m \in DOMAIN msgs :
    /\ lastAck = AckOf("deleteMessage", "NotFound", "u3", m, 0)
    /\ msgs[m].is_deleted = TRUE /\ msgs[m].deleted_at # Null

\* C24: a start_call whose callee has a registered socket pushes
\* incoming_call to that socket when it has stored the call, and
\* acknowledges only after its update to ringing: when it acknowledges with
\* success a call for which incoming_call was pushed, the stored status is
\* ringing or later.
C24_RingingBeforeAck ==
  [][/\ \A s \in Slots :
          (reqs[s].op = "startCall" /\ reqs[s].pc = "insert"
             /\ reqs'[s].op # "startCall" /\ reqs[s].sock # NoId
             /\ userSocketMap[reqs[s].callee] # NoId)
            => /\ emitted' = Append(emitted,
                     [to |-> userSocketMap[reqs[s].callee], live |-> TRUE,
                      event |-> "incoming_call", callId |-> nextCallId,
                      callerId |-> reqs[s].uid, callType |-> reqs[s].kind])
               /\ socks[userSocketMap[reqs[s].callee]].userId = reqs[s].callee
               /\ lastAck' = lastAck
               /\ reqs'[s].op = "start_call"
     /\ (lastAck' # lastAck /\ lastAck'.op = "start_call" /\ lastAck'.err = "None"
           /\ \E i \in DOMAIN emitted :
                /\ emitted[i].event = "incoming_call"
                /\ emitted[i].callId = lastAck'.id)
          => (lastAck'.id \in DOMAIN calls'
                => calls'[lastAck'.id].status \in UpdateStatuses)]_vars

\* u1's start_call to the connected u2 has been acknowledged: incoming_call
\* went to u2's socket and the call is ringing
C24_Witness ==
  /\ lastAck.op = "start_call" /\ lastAck.err = "None" /\ lastAck.id = 1
  /\ calls[1].status = "ringing" /\ calls[1].callee_id = "u2"
  /\ \E i \in DOMAIN emitted :
       /\ emitted[i].event = "incoming_call" /\ emitted[i].callId = 1
       /\ emitted[i].live /\ socks[emitted[i].to].userId = "u2"

\* C25: when the answer_call or reject_call of a participant P of a call
\* succeeds, call_answered / call_rejected is pushed to the socket of the
\* other participant if one is registered, and to no other socket: never to
\* P's own.
C25_StatusEventToOtherParty ==
  [][\A s \in Slots :
       (Completes(s, "updateCallStatus") /\ reqs[s].sock # NoId
          /\ reqs[s].cid \in DOMAIN calls)
         => LET other == OtherParty(calls[reqs[s].cid], reqs[s].uid)
            IN emitted' =
                 IF userSocketMap[other] # NoId
                   THEN Append(emitted,
                               CallStatusEvent(userSocketMap[other],
                                               StatusEventName(reqs[s].status),
                                               reqs[s].cid, reqs[s].uid))
                   ELSE emitted]_vars

\* C26: when the end_call of a participant P succeeds, the stored status
\* is ended and end_reason is the reason given, and call_ended, with the
\* duration_seconds stored, is pushed to the socket of the other participant
\* (the caller if P is the callee, the callee if P is the caller) if one is
\* registered, and to no other socket.
C26_EndedEventToOtherParty ==
  [][\A s \in Slots :
       (Completes(s, "endCall") /\ reqs[s].sock # NoId
          /\ reqs[s].cid \in DOMAIN calls)
         => LET old == calls[reqs[s].cid]
                new == calls'[reqs[s].cid]
                other == IF old.callee_id = reqs[s].uid THEN old.caller_id
                         ELSE old.callee_id
            IN /\ reqs[s].uid \in {old.caller_id, old.callee_id}
               /\ new.status = "ended"
               /\ new.end_reason = reqs[s].reason
               /\ lastAck' = AckOf("end_call", "None", reqs[s].uid, reqs[s].cid, 0)
               /\ emitted' =
                    IF userSocketMap[other] # NoId
                      THEN Append(emitted,
                                  [to |-> userSocketMap[other], live |-> TRUE,
                                   event |-> "call_ended", callId |-> reqs[s].cid,
                                   endedBy |-> reqs[s].uid,
                                   endReason |-> reqs[s].reason,
                                   duration |-> new.duration_seconds])
                      ELSE emitted]_vars

\* the callee u2 has ended an answered call 42 seconds after the answer:
\* call_ended with that duration went to the socket of the caller u1
C26_Witness ==
  /\ lastAck = AckOf("end_call", "None", "u2", 1, 0)
  /\ calls[1].caller_id = "u1" /\ calls[1].status = "ended"
  /\ calls[1].end_reason = "completed" /\ calls[1].duration_seconds = 42
  /\ userSocketMap["u1"] # NoId
  /\ emitted[Len(emitted)] =
       [to |-> userSocketMap["u1"], live |-> TRUE, event |-> "call_ended",
        callId |-> 1, endedBy |-> "u2", endReason |-> "completed",
        duration |-> 42]

\* C23: a start_call whose callee has no registered socket stores the call
\* with status initiated, pushes no incoming_call and acknowledges; as long
\* as a call is non-terminal, getActiveCall of each of its two users returns
\* that call; and getActiveCall returns null exactly for the users who are
\* party to no non-terminal call.
C23_OfflineCalleeFindsCall ==
  /\ [](\A u \in Users :
          /\ GetActiveCall(u) = {NoId}
               <=> ~\E c \in DOMAIN calls :
                      /\ calls[c].status \in ActiveStatuses
                      /\ u \in {calls[c].caller_id, calls[c].callee_id}
          /\ \A c \in DOMAIN calls :
               (calls[c].status \in ActiveStatuses
                  /\ u \in {calls[c].caller_id, calls[c].callee_id})
                 => GetActiveCall(u) = {c})
  /\ [][\A s \in Slots :
          (reqs[s].op = "startCall" /\ reqs[s].pc = "insert"
             /\ reqs'[s].op # "startCall" /\ reqs[s].sock # NoId
             /\ userSocketMap[reqs[s].callee] = NoId)
            => /\ calls'[nextCallId].status = "initiated"
               /\ calls'[nextCallId].callee_id = reqs[s].callee
               /\ emitted' = emitted
               /\ lastAck' = AckOf("start_call", "None", reqs[s].uid, nextCallId, 0)
               /\ reqs'[s].op = "idle"]_vars

\* the payload a signaling handler has in hand
SignalPayload(r) ==
  IF r.op = "webrtc_offer" THEN r.offer
  ELSE IF r.op = "webrtc_answer" THEN r.answer
  ELSE r.candidate

\* C27: each of webrtc_offer, webrtc_answer and webrtc_ice_candidate first
\* writes its payload into the metadata of the call it names, and then
\* pushes an event of its own kind, with the callId, the payload and the
\* sender's user id, to the socket registered for the target user if there
\* is one, and pushes nothing if there is none.
C27_SignalMirroredThenRelayed ==
  [][\A s \in Slots :
       /\ (reqs[s].op = "idle" /\ reqs'[s].op \in SignalKinds
             /\ reqs'[s].cid \in DOMAIN calls)
            => LET before == calls[reqs'[s].cid].metadata
                   after == calls'[reqs'[s].cid].metadata
               IN CASE reqs'[s].op = "webrtc_offer" ->
                         "offer" \in DOMAIN after /\ after.offer = reqs'[s].offer
                    [] reqs'[s].op = "webrtc_answer" ->
                         "answer" \in DOMAIN after /\ after.answer = reqs'[s].answer
                    [] OTHER ->
                         /\ "ice_candidates" \in DOMAIN after
                         /\ after.ice_candidates
                              = Append(IceCandidatesOf(before), reqs'[s].candidate)
       /\ (reqs[s].op \in SignalKinds /\ reqs'[s].op = "idle")
            => LET target == reqs[s].targetUserId
                   online == target # Absent /\ userSocketMap[target] # NoId
               IN emitted' =
                    IF online
                      THEN Append(emitted,
                                  [to |-> userSocketMap[target], live |-> TRUE,
                                   event |-> reqs[s].op, callId |-> reqs[s].cid,
                                   payload |-> SignalPayload(reqs[s]),
                                   fromUserId |-> reqs[s].uid])
                      ELSE emitted]_vars

\* C28: no failure while a socket event is handled ends the process (and
\* with it every connection).
C28_FailureStaysLocal == exited = FALSE

\* C29: a send_message whose store write is waiting is not given up when
\* its connection closes: it leaves only by storing its message, the same
\* row whether the connection is open or closed, and it can do so at any
\* time; and an open connection can be unregistered at any time, whatever
\* writes are waiting.
C29_WriteSurvivesDisconnect ==
  /\ [](/\ \A s \in Slots :
             (reqs[s].op = "sendMessage" /\ Len(msgs) < scope.maxMsgs)
               => ENABLED SendMessageInsert(s)
        /\ \A id \in OpenSockets : ENABLED Disconnect(id))
  /\ [][\A s \in Slots :
          (reqs[s].op = "sendMessage" /\ reqs'[s] # reqs[s])
            => /\ reqs'[s] = Idle
               /\ msgs' = Append(msgs,
                    [sender_id |-> reqs[s].uid, recipient_id |-> reqs[s].recipient,
                     content |-> reqs[s].content, is_read |-> FALSE,
                     read_at |-> Null, is_deleted |-> FALSE, deleted_at |-> Null,
                     created_at |-> now])]_vars

\* u1's only connection closed while its send_message waited for the
\* store; the message was stored all the same, and pushed to u2 after the
\* user_status that reported u1 offline
C29_Witness ==
  /\ Len(socks) = 2 /\ socks[1].userId # socks[2].userId
  /\ Len(msgs) >= 1 /\ msgs[1].sender_id = "u1" /\ msgs[1].recipient_id = "u2"
  /\ \E i, j \in DOMAIN emitted :
       /\ i < j
       /\ emitted[i] = StatusEvent("u1", FALSE)
       /\ emitted[j].event = "new_message" /\ emitted[j].id = 1

\* a step in which a typing_start or typing_stop event is handled
TypingStep ==
  /\ issued' = issued + 1 /\ reqs' = reqs
  /\ lastAck'.op \in {"typing_start", "typing_stop"}

C31_RefreshTokenOnce ==
  [][/\ \A s \in Slots :
        (/\ Completes(s, "refreshToken")
         /\ lastAck'.op = "refreshToken" /\ lastAck'.err = "None"
         /\ lastAck.op = "refreshToken" /\ lastAck.err = "None")
          => lastAck'.id # lastAck.id
     /\ lastAck.op = "logout"
          => ~\E s \in Slots : /\ Proceeds(s, "refreshToken")
                               /\ reqs'[s].token = lastAck.id]_vars
\* the user_status events broadcast for user u, oldest first
StatusEventsOf(u) ==
  SelectSeq(emitted, LAMBDA e : e.event = "user_status" /\ e.userId = u)

\* C32: presence follows the live connections: a user whose latest
\* user_status broadcast says offline has no open connection, and a user
\* with an open connection is reported online and is pushed to on one of
\* their open connections.
C32_PresenceMatchesConnections ==
  \A u \in Users :
    LET live == {id \in OpenSockets : socks[id].userId = u}
        told == StatusEventsOf(u)
    IN  /\ (told # <<>> /\ ~told[Len(told)].isOnline) => live = {}
        /\ live # {} => /\ GetUserOnlineStatus(u)
                        /\ userSocketMap[u] \in live
\* C33: once a call has been answered (answer_call acknowledged, answered_at
\* stored), no later step stores the status ringing for it: the update to
\* ringing that start_call still has to make after it pushed incoming_call
\* does not put the call back.
C33_NoRevertToRinging ==
  [][\A c \in DOMAIN calls \cap DOMAIN calls' :
       calls[c].answered_at # Null => calls'[c].status # "ringing"]_vars
\* C34: a call has one outcome: of all the answer_call and reject_call
\* requests for one call at most one succeeds, so at most one call_answered
\* or call_rejected event is ever emitted for it, and never one of each.
C34_SingleOutcome ==
  \A c \in CallIds :
    Cardinality({i \in DOMAIN emitted :
                   /\ emitted[i].event \in {"call_answered", "call_rejected"}
                   /\ emitted[i].callId = c}) <= 1
\* C35: a call is ended at most once: an end request succeeds only on a
\* call that is not ended when its update runs, so a second request for
\* the same call, overlapping or not, fails, and at most one call_ended
\* event is ever emitted for a call.
C35_EndedAtMostOnce ==
  /\ [](\A c \in CallIds :
         Cardinality({i \in DOMAIN emitted :
                        /\ emitted[i].event = "call_ended"
                        /\ emitted[i].callId = c}) <= 1)
  /\ [][\A s \in Slots :
          (/\ Completes(s, "endCall") /\ lastAck'.err = "None"
           /\ reqs[s].cid \in DOMAIN calls)
            => calls[reqs[s].cid].status # "ended"]_vars
\* C36: answered_at and ended_at are write-once: answered_at is stored by
\* the step that takes a call to answered, and neither timestamp changes
\* once it holds a value.
C36_TimestampsWriteOnce ==
  [][\A c \in DOMAIN calls \cap DOMAIN calls' :
       /\ (calls[c].status # "answered" /\ calls'[c].status = "answered")
            => calls'[c].answered_at # Null
       /\ calls[c].answered_at # Null
            => calls'[c].answered_at = calls[c].answered_at
       /\ calls[c].ended_at # Null
            => calls'[c].ended_at = calls[c].ended_at]_vars
\* C37: a signaling event (webrtc_offer, webrtc_answer, webrtc_ice_candidate)
\* from a user who is neither caller nor callee of the call it names
\* changes no call record and is not passed on to its target.
C37_OutsiderCannotSignal ==
  [][\A s \in Slots :
       /\ (/\ reqs[s].op = "idle" /\ reqs'[s].op \in SignalKinds
           /\ reqs'[s].cid \in DOMAIN calls
           /\ ~IsParty(calls[reqs'[s].cid], reqs'[s].uid))
            => calls' = calls
       /\ (/\ reqs[s].op \in SignalKinds /\ reqs'[s].op = "idle"
           /\ reqs[s].cid \in DOMAIN calls
           /\ ~IsParty(calls[reqs[s].cid], reqs[s].uid))
            => emitted' = emitted]_vars
\* the key k is in both metadata values with one value, or in neither
KeyKept(k, before, after) ==
  /\ k \in DOMAIN before <=> k \in DOMAIN after
  /\ k \in DOMAIN before => after[k] = before[k]

\* C38: the statement of createOffer, createAnswer and addIceCandidate
\* changes nothing but the metadata of the call it names: every other
\* column of every call stays, no call or message is added or removed,
\* createOffer and createAnswer keep the ice_candidates collected so far,
\* and addIceCandidate keeps the stored offer and answer.
C38_SignalingTouchesMetadataOnly ==
  [][\A s \in Slots :
       (reqs[s].op = "idle" /\ reqs'[s].op \in SignalKinds)
         => /\ DOMAIN calls' = DOMAIN calls
            /\ nextCallId' = nextCallId /\ msgs' = msgs
            /\ \A c \in DOMAIN calls :
                 LET before == calls[c].metadata
                     after == calls'[c].metadata
                 IN /\ [calls'[c] EXCEPT !.metadata = before] = calls[c]
                    /\ c # reqs'[s].cid => after = before
                    /\ KeyKept("created_via", before, after)
                    /\ reqs'[s].op \in {"webrtc_offer", "webrtc_answer"}
                         => KeyKept("ice_candidates", before, after)
                    /\ reqs'[s].op = "webrtc_ice_candidate"
                         => /\ KeyKept("offer", before, after)
                            /\ KeyKept("answer", before, after)]_vars

\* an offer has been recorded on a call that had a candidate, and a
\* candidate on a call that had an offer
C38_Witness ==
  \E c \in DOMAIN calls :
    /\ "offer" \in DOMAIN calls[c].metadata
    /\ Len(IceCandidatesOf(calls[c].metadata)) >= 1
    /\ calls[c].status = "initiated"
    /\ lastAck.op \in {"webrtc_offer", "webrtc_ice_candidate"}
\* C39: a mark_read event pushes message_read only when its update marked
\* at least one message read, and then only to a connection of the sender
\* of what it marked; an event of a user who is not the recipient, or one
\* that marks nothing, pushes nothing.
C39_ReceiptOnlyForMarked ==
  [][\A s \in Slots :
       (Completes(s, "mark_read") /\ emitted' # emitted)
         => /\ reqs[s].n >= 1
            /\ reqs[s].mid \in DOMAIN msgs
                 => socks[emitted'[Len(emitted')].to].userId
                      = msgs[reqs[s].mid].sender_id]_vars
\* C40: the flags of a message only ever go up: whatever is sent, marked
\* read or deleted, a message that is read stays read, a message that is
\* deleted stays deleted, and no step changes the sender, the recipient or
\* the content of a stored message.
C40_FlagsMonotonic ==
  [][\A m \in DOMAIN msgs :
       /\ m \in DOMAIN msgs'
       /\ msgs[m].is_read => msgs'[m].is_read
       /\ msgs[m].is_deleted => msgs'[m].is_deleted
       /\ msgs'[m].sender_id = msgs[m].sender_id
       /\ msgs'[m].recipient_id = msgs[m].recipient_id
       /\ msgs'[m].content = msgs[m].content]_vars

\* a message that had been marked read has then been deleted with its
\* conversation, and is both read and deleted
C40_Witness ==
  \E m \in DOMAIN msgs :
    /\ msgs[m].is_read /\ msgs[m].is_deleted
    /\ lastAck.op = "deleteConversation" /\ lastAck.n >= 1
====
